---- MODULE Spec2Model ----
(***************************************************************************)
(* Model of the market-lens simulation core: the single-ticker             *)
(* SimulationEngine (src/simulation/engine.py), the shared-capital         *)
(* PortfolioEngine (src/simulation/portfolio.py) and the exit rules of the *)
(* EntryPointScanner (src/scanners/entry_point.py).                        *)
(*                                                                         *)
(* Money and share counts are exact rationals [n, d] in lowest terms, so   *)
(* shares = dollars / price and shares * price are computed as the code    *)
(* computes them, up to the rounding of IEEE doubles.  Dates are integers  *)
(* (calendar days); the simulated calendar is drawn one day at a time,     *)
(* because neither engine reads a bar dated after the current date.        *)
(***************************************************************************)
EXTENDS Integers, Sequences, FiniteSets, TLC

\* ------------------------------------------------------------------ bounds
MaxDays == 2
\* calendar days between two consecutive simulated dates
DayGap == 15

Tickers == {"A", "B"}
\* closes: 18 -> 20 and 20 -> 18 trigger nothing, 20 -> 24 is a profit
\* target, 24 -> 20 and 24 -> 18 are stop-losses
Prices == {18, 20, 24}
\* a ticker without a row for the current date
NoBar == 0
\* an entry signal whose metadata holds no "score" key
NoScore == -1
\* check_entry_signal returned None
NoSignal == -2
Scores == {40, 70}
\* the engine's initial_capital
InitialCapital == 100

\* ------------------------------------------------------------ rationals
RECURSIVE GCD(_, _)
GCD(a, b) == IF b = 0 THEN a ELSE GCD(b, a % b)

Abs(x) == IF x < 0 THEN -x ELSE x

Rat(n, d) ==
    LET s == IF d < 0 THEN -1 ELSE 1
        g == GCD(Abs(n), Abs(d))
    IN  [n |-> (s * n) \div g, d |-> (s * d) \div g]

R(i) == [n |-> i, d |-> 1]
Zero == R(0)
RAdd(x, y) == Rat(x.n * y.d + y.n * x.d, x.d * y.d)
RSub(x, y) == Rat(x.n * y.d - y.n * x.d, x.d * y.d)
RMul(x, y) == Rat(x.n * y.n, x.d * y.d)
RDiv(x, y) == Rat(x.n * y.d, x.d * y.n)
RLt(x, y) == x.n * y.d < y.n * x.d
RLe(x, y) == x.n * y.d <= y.n * x.d
RMin(x, y) == IF RLe(x, y) THEN x ELSE y

\* round(x, 2) of a rational, as an integer number of hundredths
\* (ties go to the even neighbour, as Python's round does)
Round2(x) ==
    LET num == x.n * 100
        q == num \div x.d
        r == num % x.d
    IN  IF 2 * r < x.d THEN q
        ELSE IF 2 * r > x.d THEN q + 1
        ELSE IF q % 2 = 0 THEN q ELSE q + 1

\* ------------------------------------------------------- sequence helpers
RECURSIVE SeqSum(_)
SeqSum(s) == IF s = <<>> THEN Zero ELSE RAdd(Head(s), SeqSum(Tail(s)))

Range(s) == {s[i] : i \in 1..Len(s)}

Take(s, k) == IF k >= Len(s) THEN s ELSE SubSeq(s, 1, k)

Perms(S) == {p \in [1..Cardinality(S) -> S] : Range(p) = S}

\* ------------------------------------------------- scanner: exit rules
\* The indicator values check_exit_signal reads at the current bar:
\*   ma20         ind["d_mm"].iloc[idx]
\*   prev2_below  the two previous closes were below their MA20
\*   vol, vol_avg ohlcv.loc[date, "Volume"], ind["vol_avg"].iloc[idx]
IndQuiet == [ma20 |-> 16, prev2_below |-> FALSE, vol |-> 1, vol_avg |-> 1]
IndBreak == [ma20 |-> 25, prev2_below |-> TRUE, vol |-> 1, vol_avg |-> 1]
SimInds == {IndQuiet, IndBreak}
\* the portfolio runs draw the indicators of a held ticker from these
PortfolioInds == {IndQuiet}

\* mutant: the three-closes rule is tried before the stop-loss
CheckExitBreakdownFirst(close, entry_price, ind, days_held) ==
    IF ind.prev2_below /\ close < ind.ma20 THEN "MA20_BREAKDOWN"
    ELSE IF 10 * close < 9 * entry_price THEN "STOP_LOSS"
    ELSE IF 100 * close > 115 * entry_price THEN "PROFIT_TARGET"
    ELSE IF ind.ma20 > 0 /\ 100 * (close - ind.ma20) < (-5) * ind.ma20
         THEN "SHARP_DROP"
    ELSE IF close < ind.ma20 /\ ind.vol_avg > 0 /\ ind.vol > ind.vol_avg * 2
         THEN "VOLUME_BREAKDOWN"
    ELSE IF days_held >= 30 THEN "TIME_EXIT"
    ELSE "NONE"

\* mutant: the time exit is tried before the volume rule
CheckExitTimeFirst(close, entry_price, ind, days_held) ==
    IF 10 * close < 9 * entry_price THEN "STOP_LOSS"
    ELSE IF 100 * close > 115 * entry_price THEN "PROFIT_TARGET"
    ELSE IF ind.prev2_below /\ close < ind.ma20 THEN "MA20_BREAKDOWN"
    ELSE IF ind.ma20 > 0 /\ 100 * (close - ind.ma20) < (-5) * ind.ma20
         THEN "SHARP_DROP"
    ELSE IF days_held >= 30 THEN "TIME_EXIT"
    ELSE IF close < ind.ma20 /\ ind.vol_avg > 0 /\ ind.vol > ind.vol_avg * 2
         THEN "VOLUME_BREAKDOWN"
    ELSE "NONE"

\* EntryPointScanner.check_exit_signal on the precomputed indicators:
\* the reason of the ExitSignal (its price is the close, its date the
\* current date) or "NONE".
CheckExitSignal(close, entry_price, ind, days_held) ==
    IF 10 * close < 9 * entry_price THEN "STOP_LOSS"
    ELSE IF 100 * close > 115 * entry_price THEN "PROFIT_TARGET"
    ELSE IF ind.prev2_below /\ close < ind.ma20 THEN "MA20_BREAKDOWN"
    ELSE IF ind.ma20 > 0 /\ 100 * (close - ind.ma20) < (-5) * ind.ma20
         THEN "SHARP_DROP"
    ELSE IF close < ind.ma20 /\ ind.vol_avg > 0 /\ ind.vol > ind.vol_avg * 2
         THEN "VOLUME_BREAKDOWN"
    ELSE IF days_held >= 30 THEN "TIME_EXIT"
    ELSE "NONE"

\* EntryPointScanner.__init__: the daily and weekly MA periods
d_xfast == 5
d_fast == 10
d_mid == 20
d_slow == 50
w_fast == 10
w_mid == 20

\* a rolling mean that is not defined yet (fewer bars than its window)
NaN == -1

\* check_exit_signal as the engines call it for the bar at position idx of
\* the prepared series: the guards of lines 329-351, then the rules
ExitVerdict(q) ==
    IF q.idx + 1 < d_mid + 5 THEN "NONE"
    ELSE IF q.ind.ma20 = NaN THEN "NONE"
    ELSE CheckExitSignal(q.close, q.entry_price, q.ind, q.days_held)

\* entry.metadata.get("score", 0)
ScoreOf(sig) == IF sig = NoScore THEN 0 ELSE sig

\* ------------------------------------------------- the scanner object
\* EntryPointScanner.__init__: the detection thresholds
approach_pct == R(3)
touch_pct == Rat(1, 2)
lookback == 3
wick_body_ratio == R(2)
upper_wick_max == Rat(3, 10)

\* configure, lines 56 and 60: the declared keys in the order they are set
int_keys == <<"d_xfast", "d_fast", "d_mid", "d_slow", "w_fast", "w_mid",
              "lookback">>
float_keys == <<"approach_pct", "touch_pct", "wick_body_ratio",
                "upper_wick_max">>

\* an attribute that was never assigned (hasattr is false)
Unset == "unset"
\* _sim_entries = {} and _sim_ind = None
NoEntries == "{}"
NoInd == "None"

\* EntryPointScanner(): the attributes after __init__.  While an engine
\* runs, the cached table _sim_entries and the cached indicators _sim_ind
\* are named by the ticker whose series they were computed from.
NewScanner ==
    [params |-> [d_xfast |-> d_xfast, d_fast |-> d_fast, d_mid |-> d_mid,
                 d_slow |-> d_slow, w_fast |-> w_fast, w_mid |-> w_mid,
                 lookback |-> lookback, approach_pct |-> approach_pct,
                 touch_pct |-> touch_pct,
                 wick_body_ratio |-> wick_body_ratio,
                 upper_wick_max |-> upper_wick_max],
     sim_ticker |-> Unset, sim_entries |-> Unset, sim_ind |-> Unset]

\* A parameter value is the text after "=" of a --param flag, a sequence
\* of characters.
Digits == <<"0", "1", "2", "3", "4", "5", "6", "7", "8", "9">>
DigitVal(c) == (CHOOSE i \in 1..10 : Digits[i] = c) - 1
IsDigits(s) == s # <<>> /\ \A i \in 1..Len(s) : s[i] \in Range(Digits)

RECURSIVE DigitsVal(_)
DigitsVal(s) ==
    IF s = <<>> THEN 0
    ELSE DigitsVal(SubSeq(s, 1, Len(s) - 1)) * 10 + DigitVal(s[Len(s)])

RECURSIVE Pow10(_)
Pow10(k) == IF k = 0 THEN 1 ELSE 10 * Pow10(k - 1)

Unsigned(s) == IF s # <<>> /\ s[1] \in {"-", "+"} THEN Tail(s) ELSE s
SignOf(s) == IF s # <<>> /\ s[1] = "-" THEN -1 ELSE 1

\* mutant: a text that is no integer is read as 0
IntOfLenient(s) ==
    IF IsDigits(Unsigned(s))
    THEN [ok |-> TRUE, val |-> SignOf(s) * DigitsVal(Unsigned(s))]
    ELSE [ok |-> TRUE, val |-> 0]

\* int(s) for an optional sign and decimal digits; ValueError otherwise
IntOf(s) ==
    IF IsDigits(Unsigned(s))
    THEN [ok |-> TRUE, val |-> SignOf(s) * DigitsVal(Unsigned(s))]
    ELSE [ok |-> FALSE, val |-> 0]

\* float(s) for an optional sign, digits and at most one decimal point
\* with a digit on either side of it; ValueError otherwise
FloatOf(s) ==
    LET u == Unsigned(s)
        dots == {i \in 1..Len(u) : u[i] = "."}
    IN  IF dots = {}
        THEN IF IsDigits(u)
             THEN [ok |-> TRUE, val |-> R(SignOf(s) * DigitsVal(u))]
             ELSE [ok |-> FALSE, val |-> Zero]
        ELSE IF Cardinality(dots) > 1 THEN [ok |-> FALSE, val |-> Zero]
        ELSE LET dot == CHOOSE i \in dots : TRUE
                 whole == SubSeq(u, 1, dot - 1)
                 frac == SubSeq(u, dot + 1, Len(u))
             IN  IF /\ whole \o frac # <<>>
                    /\ \A i \in 1..Len(whole) : whole[i] \in Range(Digits)
                    /\ \A i \in 1..Len(frac) : frac[i] \in Range(Digits)
                 THEN [ok |-> TRUE,
                       val |-> Rat(SignOf(s) * (DigitsVal(whole)
                                                  * Pow10(Len(frac))
                                                + DigitsVal(frac)),
                                   Pow10(Len(frac)))]
                 ELSE [ok |-> FALSE, val |-> Zero]

\* mutant: the value given for d_fast is stored under d_mid
SetAttrSlip(params, key, val) ==
    IF key = "d_fast" THEN [params EXCEPT !["d_mid"] = val]
    ELSE [params EXCEPT ![key] = val]

\* setattr(self, key, value)
SetAttr(params, key, val) == [params EXCEPT ![key] = val]

\* lines 57-59 and 61-63: one loop over the declared keys of a type; the
\* loop stops at the first value that does not convert
RECURSIVE SetKeys(_, _, _, _)
SetKeys(keys, declared, kwargs, acc) ==
    IF keys = <<>> \/ acc.raised THEN acc
    ELSE LET key == Head(keys)
         IN  IF key \notin DOMAIN kwargs
             THEN SetKeys(Tail(keys), declared, kwargs, acc)
             ELSE LET r == IF declared = "int" THEN IntOf(kwargs[key])
                           ELSE FloatOf(kwargs[key])
                  IN  IF ~r.ok THEN [acc EXCEPT !.raised = TRUE]
                      ELSE SetKeys(Tail(keys), declared, kwargs,
                             [acc EXCEPT
                                 !.params = SetAttr(@, key, r.val)])

\* configure(**kwargs): the scanner after the call and whether the call
\* raised ValueError
Configure(s, kwargs) ==
    LET ints == SetKeys(int_keys, "int", kwargs,
                        [params |-> s.params, raised |-> FALSE])
        floats == SetKeys(float_keys, "float", kwargs, ints)
    IN  [scanner |-> [s EXCEPT !.params = floats.params],
         raised |-> floats.raised]

\* mutant: the table of the previous ticker is kept until it is refilled
PrepareSimulationKeeping(s, ticker, outcome) ==
    LET started == [s EXCEPT !.sim_ticker = ticker]
    IN  IF outcome = "raises" THEN [scanner |-> started, raised |-> TRUE]
        ELSE IF outcome = "short"
             THEN [scanner |-> [started EXCEPT !.sim_ind = NoInd],
                   raised |-> FALSE]
             ELSE [scanner |-> [started EXCEPT !.sim_ind = ticker,
                                               !.sim_entries = ticker],
                   raised |-> FALSE]

\* What _compute_indicators does with a ticker's series: "ok" it returns
\* the indicators, "short" it returns None, "raises" it raises.
\* prepare_simulation, lines 286-306: the scanner after the call and
\* whether the call raised
PrepareSimulation(s, ticker, outcome) ==
    LET started == [s EXCEPT !.sim_ticker = ticker,
                             !.sim_entries = NoEntries]
    IN  IF outcome = "raises" THEN [scanner |-> started, raised |-> TRUE]
        ELSE IF outcome = "short"
             THEN [scanner |-> [started EXCEPT !.sim_ind = NoInd],
                   raised |-> FALSE]
             ELSE [scanner |-> [started EXCEPT !.sim_ind = ticker,
                                               !.sim_entries = ticker],
                   raised |-> FALSE]

\* ------------------------------------------------------------- records
\* EntrySignal(date, price, reason); the metadata is read once, for the
\* score, when the signal is returned
EntrySignal(date, price, reason) ==
    [date |-> date, price |-> price, reason |-> reason]

\* mutant: the return is taken relative to the exit price
MakeTradeOverExit(ticker, entry, exit_date, exit_price, exit_reason) ==
    [ticker |-> ticker,
     entry_date |-> entry.date,
     entry_price |-> entry.price,
     entry_reason |-> entry.reason,
     exit_date |-> exit_date,
     exit_price |-> exit_price,
     exit_reason |-> exit_reason,
     return_pct |-> Round2(Rat((exit_price - entry.price) * 100,
                               exit_price)),
     hold_days |-> exit_date - entry.date]

\* Trade(...) as both engines build it from the entry signal and the exit
MakeTrade(ticker, entry, exit_date, exit_price, exit_reason) ==
    [ticker |-> ticker,
     entry_date |-> entry.date,
     entry_price |-> entry.price,
     entry_reason |-> entry.reason,
     exit_date |-> exit_date,
     exit_price |-> exit_price,
     exit_reason |-> exit_reason,
     return_pct |-> Round2(Rat((exit_price - entry.price) * 100,
                               entry.price)),
     hold_days |-> exit_date - entry.date]

\* Trade.is_win
IsWin(t) == t.return_pct > 0

\* ---------------------------------------------------------------- state
VARIABLES
    engine,            \* "single" (SimulationEngine) or "portfolio"
    cfg,               \* the engine's constructor arguments
    valid_tickers,     \* portfolio: tickers in the caller's order
    pc,                \* position of the engine in its loop
    day,               \* number of the current simulated date
    today,             \* ticker -> close on the current date, or NoBar
    last_close,        \* held ticker -> its latest close before today
    cash,
    open_positions,    \* portfolio: dict ticker -> OpenPosition, as the
                       \* sequence of its values in insertion order
    position,          \* single: the open EntrySignal, or <<>> for None
    shares,            \* single
    trades,
    equity_rows,
    tickers_to_close,  \* portfolio, step A
    available_slots,   \* portfolio, step B
    candidates,        \* portfolio, step B: the sorted candidate list
    opened,            \* portfolio, step B: tickers opened today, in order
    day_start,         \* cash and holdings when the day's iteration began
    total_days,        \* the result's total_days
    query,             \* scanner called on its own: the call's arguments
    verdict,           \* scanner called on its own: what the call returned
    tickers,           \* the tickers handed to the engine or the driver
    next_ticker,       \* position in `tickers` of the loop over them
    scanner,           \* the scanner object the engine was built with
    scanner_per_ticker,\* portfolio: dict ticker -> prepared scanner copy
    warnings,          \* tickers named in a logged warning, in order
    results            \* batch driver: the collected SimulationResults

vars == <<engine, cfg, valid_tickers, pc, day, today, last_close, cash,
          open_positions, position, shares, trades, equity_rows,
          tickers_to_close, available_slots, candidates, opened, day_start,
          total_days, query, verdict, tickers, next_ticker, scanner,
          scanner_per_ticker, warnings, results>>

current_date == day * DayGap

\* position_dollar_size = initial_capital * position_size
position_dollar_size == RMul(cfg.initial_capital, cfg.position_size)
HalfSize == RMul(position_dollar_size, Rat(1, 2))

OpenTickers(ps) == {ps[i].ticker : i \in 1..Len(ps)}

PosOf(ps, t) == ps[CHOOSE i \in 1..Len(ps) : ps[i].ticker = t]

\* ------------------------------------- portfolio: phases 1 and 2
\* what becomes of a ticker in phase 1: "empty" is a ticker without rows
\* in ohlcv_data, the others are what prepare_simulation does with it
PrepareOutcomes == {"ok", "short", "raises", "empty"}

\* d[k] = v on a dict
Put(d, k, v) == [x \in DOMAIN d \cup {k} |-> IF x = k THEN v ELSE d[x]]

\* mutant: no copy is made, every entry of scanner_per_ticker is the
\* engine's own scanner object
PrepareTickerShared(sc, spt, ticker, outcome) ==
    LET r == PrepareSimulation(sc, ticker, outcome)
        keys == IF r.raised THEN DOMAIN spt ELSE DOMAIN spt \cup {ticker}
    IN  [scanner |-> r.scanner,
         scanner_per_ticker |-> [x \in keys |-> r.scanner],
         raised |-> r.raised]

\* lines 83-93: a deep copy of the engine's scanner is prepared for the
\* ticker and kept under it unless the preparation raised
PrepareTicker(sc, spt, ticker, outcome) ==
    LET r == PrepareSimulation(sc, ticker, outcome)
    IN  [scanner |-> sc,
         scanner_per_ticker |-> IF r.raised THEN spt
                                ELSE Put(spt, ticker, r.scanner),
         raised |-> r.raised]

\* mutant: the ticker is listed before its preparation is tried
ListTickerAlways(valid, ticker, raised) == Append(valid, ticker)

\* line 91, reached when nothing raised
ListTicker(valid, ticker, raised) ==
    IF raised THEN valid ELSE Append(valid, ticker)

\* lines 80-93: one iteration of the loop over the tickers
Phase1 ==
    /\ engine = "portfolio" /\ pc = "prepare"
    /\ next_ticker <= Len(tickers)
    /\ \E outcome \in PrepareOutcomes :
         LET ticker == tickers[next_ticker]
             r == PrepareTicker(scanner, scanner_per_ticker, ticker,
                                outcome)
         IN  IF outcome = "empty"
             THEN UNCHANGED <<scanner, scanner_per_ticker, valid_tickers,
                              warnings>>
             ELSE /\ scanner' = r.scanner
                  /\ scanner_per_ticker' = r.scanner_per_ticker
                  /\ valid_tickers' = ListTicker(valid_tickers, ticker,
                                                 r.raised)
                  /\ warnings' = IF r.raised THEN Append(warnings, ticker)
                                 ELSE warnings
    /\ next_ticker' = next_ticker + 1
    /\ UNCHANGED <<query, verdict, tickers, results, engine, cfg, pc, day,
                   today, last_close, cash, open_positions, position,
                   shares, trades, equity_rows, tickers_to_close,
                   available_slots, candidates, opened, day_start,
                   total_days>>

\* lines 95-111: without a valid ticker, or without a date of theirs in
\* the window, the empty result is returned; else the day loop starts
Phase2 ==
    /\ engine = "portfolio" /\ pc = "prepare"
    /\ next_ticker > Len(tickers)
    /\ \E in_window \in BOOLEAN :
         IF valid_tickers = <<>> \/ ~in_window
         THEN pc' = "done" /\ day' = day
         ELSE pc' = "exits" /\ day' = 1
    /\ UNCHANGED <<query, verdict, tickers, next_ticker, scanner,
                   scanner_per_ticker, warnings, results, engine, cfg,
                   valid_tickers, today, last_close, cash,
                   open_positions, position, shares, trades, equity_rows,
                   tickers_to_close, available_slots, candidates, opened,
                   day_start, total_days>>

\* ---------------------------------------------- portfolio: step A, exits
\* mutant: the exit is credited at the position's cost
ProceedsAtCost(pos, price) == pos.cost_basis

\* mutant: the exit credits the price of one share
ProceedsOfOneShare(pos, price) == R(price)

\* line 133: proceeds = pos.shares * exit_signal.price
Proceeds(pos, price) == RMul(pos.shares, R(price))

\* mutant: a position whose ticker has no row today is checked all the
\* same, against the missing close
RECURSIVE ExitLoopNoSkip(_, _, _, _, _)
ExitLoopNoSkip(ps, bars, inds, date, acc) ==
    IF ps = <<>> THEN acc
    ELSE LET pos == Head(ps)
             t == pos.ticker
             ind == IF t \in DOMAIN inds THEN inds[t] ELSE IndQuiet
             reason == CheckExitSignal(bars[t], pos.entry_signal.price,
                                       ind, date - pos.entry_signal.date)
         IN  IF reason = "NONE"
             THEN ExitLoopNoSkip(Tail(ps), bars, inds, date, acc)
             ELSE ExitLoopNoSkip(Tail(ps), bars, inds, date,
                    [cash |-> RAdd(acc.cash, RMul(pos.shares, R(bars[t]))),
                     trades |-> Append(acc.trades,
                         MakeTrade(t, pos.entry_signal, date, bars[t],
                                   reason)),
                     closed |-> Append(acc.closed, t)])

\* lines 124-154: one pass over open_positions in insertion order; acc
\* carries cash, trades and tickers_to_close
RECURSIVE ExitLoop(_, _, _, _, _)
ExitLoop(ps, bars, inds, date, acc) ==
    IF ps = <<>> THEN acc
    ELSE LET pos == Head(ps)
             t == pos.ticker
         IN  IF bars[t] = NoBar
             THEN ExitLoop(Tail(ps), bars, inds, date, acc)
             ELSE LET reason == CheckExitSignal(bars[t],
                                    pos.entry_signal.price, inds[t],
                                    date - pos.entry_signal.date)
                  IN  IF reason = "NONE"
                      THEN ExitLoop(Tail(ps), bars, inds, date, acc)
                      ELSE ExitLoop(Tail(ps), bars, inds, date,
                             [cash |-> RAdd(acc.cash,
                                            Proceeds(pos, bars[t])),
                              trades |-> Append(acc.trades,
                                  MakeTrade(t, pos.entry_signal, date,
                                            bars[t], reason)),
                              closed |-> Append(acc.closed, t)])

\* mutant: the last of the closed tickers is not deleted
DeleteClosedButLast(ps, closed) ==
    SelectSeq(ps, LAMBDA pos :
        pos.ticker \notin Range(SubSeq(closed, 1, Len(closed) - 1)))

\* mutant: the closed tickers are not deleted before the entry step
KeepClosed(ps, closed) == ps

\* lines 156-157: del open_positions[ticker] for the closed tickers
DeleteClosed(ps, closed) ==
    SelectSeq(ps, LAMBDA pos : pos.ticker \notin Range(closed))

\* lines 99-102: the calendar is the union of the valid tickers' dates, so
\* one of them trades; a ticker whose preparation raised has its rows in
\* ohlcv_data all the same, a ticker that was skipped for having no rows
\* has none
BarsOfDay ==
    {b \in [Tickers -> Prices \cup {NoBar}] :
        /\ \E t \in Range(valid_tickers) : b[t] # NoBar
        /\ \A t \in Tickers :
              t \notin Range(valid_tickers) \cup Range(warnings)
                  => b[t] = NoBar}

StepA ==
    /\ engine = "portfolio" /\ pc = "exits"
    /\ \E bars \in BarsOfDay :
         \E inds \in [{t \in OpenTickers(open_positions) : bars[t] # NoBar}
                        -> PortfolioInds] :
           LET r == ExitLoop(open_positions, bars, inds, current_date,
                       [cash |-> cash, trades |-> trades, closed |-> <<>>])
           IN  /\ today' = bars
               /\ day_start' = [cash |-> cash, positions |-> open_positions]
               /\ cash' = r.cash
               /\ trades' = r.trades
               /\ tickers_to_close' = r.closed
               /\ open_positions' = DeleteClosed(open_positions, r.closed)
    /\ pc' = "entries"
    /\ UNCHANGED <<query, verdict, tickers, next_ticker, scanner,
                   scanner_per_ticker, warnings, results,
                   engine, cfg, valid_tickers, day, last_close, position,
                   shares, equity_rows, available_slots, candidates, opened,
                   total_days>>

\* -------------------------------------------- portfolio: step B, entries
EntryOpts == {NoSignal, NoScore} \cup Scores

\* check_entry_signal(ticker, ..., date) of the scanner s, lines 308-311,
\* for a date of the ticker: what it may return.  A scanner prepared for
\* the ticker answers from its table, any other through the default of
\* BaseScanner, whose signals carry the scan details and no score.
CheckEntrySignal(s, ticker) ==
    IF s.sim_ticker = ticker
    THEN IF s.sim_entries = ticker THEN EntryOpts ELSE {NoSignal}
    ELSE {NoSignal, NoScore}

\* what each valid ticker's scanner answers for the current date
\* (_sim_entries is keyed by the ticker's own dates), whether or not the
\* engine asks for it
SignalsOfDay(bars) ==
    {s \in [Tickers -> EntryOpts] :
        \A t \in Tickers :
           IF t \in Range(valid_tickers) /\ bars[t] # NoBar
           THEN s[t] \in CheckEntrySignal(scanner_per_ticker[t], t)
           ELSE s[t] = NoSignal}

\* mutant: a ticker that is already open is not skipped
BuildCandidatesNoSkip(tks, ps, bars, sigs) ==
    LET all == [i \in 1..Len(tks) |->
                   [score |-> ScoreOf(sigs[tks[i]]),
                    ticker |-> tks[i],
                    price |-> bars[tks[i]]]]
    IN  SelectSeq(all, LAMBDA c : /\ bars[c.ticker] # NoBar
                                  /\ sigs[c.ticker] # NoSignal)

\* lines 163-180: candidates in the order of valid_tickers
BuildCandidates(tks, ps, bars, sigs) ==
    LET all == [i \in 1..Len(tks) |->
                   [score |-> ScoreOf(sigs[tks[i]]),
                    ticker |-> tks[i],
                    price |-> bars[tks[i]]]]
    IN  SelectSeq(all, LAMBDA c : /\ c.ticker \notin OpenTickers(ps)
                                  /\ bars[c.ticker] # NoBar
                                  /\ sigs[c.ticker] # NoSignal)

\* mutant: an element is put before the earlier elements of equal score
RECURSIVE InsertDescUnstable(_, _)
InsertDescUnstable(x, s) ==
    IF s = <<>> THEN <<x>>
    ELSE IF Head(s).score > x.score
         THEN <<Head(s)>> \o InsertDescUnstable(x, Tail(s))
         ELSE <<x>> \o s

\* list.sort(key=score, reverse=True): stable, equal scores keep their order
RECURSIVE InsertDesc(_, _)
InsertDesc(x, s) ==
    IF s = <<>> THEN <<x>>
    ELSE IF Head(s).score >= x.score
         THEN <<Head(s)>> \o InsertDesc(x, Tail(s))
         ELSE <<x>> \o s

RECURSIVE SortFrom(_, _)
SortFrom(s, acc) ==
    IF s = <<>> THEN acc ELSE SortFrom(Tail(s), InsertDesc(Head(s), acc))

\* mutant: the candidates are left in scan order
SortCandidatesNone(cs) == cs

\* line 182
SortCandidates(cs) == SortFrom(cs, <<>>)

\* open_positions[ticker] = pos
DictSet(ps, pos) ==
    IF pos.ticker \in OpenTickers(ps)
    THEN [i \in 1..Len(ps) |->
             IF ps[i].ticker = pos.ticker THEN pos ELSE ps[i]]
    ELSE Append(ps, pos)

\* mutant: all the remaining cash is committed
DollarsToInvestAll(c) == c

\* line 185
DollarsToInvest(c) == RMin(position_dollar_size, c)

\* lines 184-196: the loop over candidates[:available_slots]
RECURSIVE EntryLoop(_, _, _)
EntryLoop(cs, date, acc) ==
    IF cs = <<>> THEN acc
    ELSE LET dollars_to_invest == DollarsToInvest(acc.cash)
         IN  IF RLt(dollars_to_invest, HalfSize) THEN acc
             ELSE LET c == Head(cs)
                      sh == RDiv(dollars_to_invest, R(c.price))
                      cost == RMul(sh, R(c.price))
                  IN  EntryLoop(Tail(cs), date,
                        [cash |-> RSub(acc.cash, cost),
                         positions |-> DictSet(acc.positions,
                             [ticker |-> c.ticker,
                              entry_signal |->
                                  EntrySignal(date, c.price, "BUY"),
                              shares |-> sh,
                              cost_basis |-> cost]),
                         opened |-> Append(acc.opened, c.ticker)])

\* mutant: the open positions are not subtracted
AvailableSlotsAll(ps) == cfg.max_positions

\* line 160
AvailableSlots(ps) == cfg.max_positions - Len(ps)

\* mutant: after an entry the day's exit step runs again, over the
\* positions opened today as well
StepBThenExits ==
    /\ engine = "portfolio" /\ pc = "entries"
    /\ available_slots' = cfg.max_positions - Len(open_positions)
    /\ IF available_slots' > 0 /\ RLe(HalfSize, cash)
       THEN \E sigs \in SignalsOfDay(today) :
              LET cs == SortCandidates(BuildCandidates(valid_tickers,
                                           open_positions, today, sigs))
                  r == EntryLoop(Take(cs, available_slots'), current_date,
                         [cash |-> cash, positions |-> open_positions,
                          opened |-> <<>>])
              IN  /\ candidates' = cs
                  /\ cash' = r.cash
                  /\ open_positions' = r.positions
                  /\ opened' = r.opened
       ELSE /\ candidates' = <<>>
            /\ opened' = <<>>
            /\ UNCHANGED <<cash, open_positions>>
    /\ pc' = IF opened' # <<>> THEN "exits" ELSE "equity"
    /\ UNCHANGED <<query, verdict, tickers, next_ticker, scanner,
                   scanner_per_ticker, warnings, results,
                   engine, cfg, valid_tickers, day, today, last_close,
                   position, shares, trades, equity_rows, tickers_to_close,
                   day_start, total_days>>

StepB ==
    /\ engine = "portfolio" /\ pc = "entries"
    /\ available_slots' = AvailableSlots(open_positions)
    /\ IF available_slots' > 0 /\ RLe(HalfSize, cash)
       THEN \E sigs \in SignalsOfDay(today) :
              LET cs == SortCandidates(BuildCandidates(valid_tickers,
                                           open_positions, today, sigs))
                  r == EntryLoop(Take(cs, available_slots'), current_date,
                         [cash |-> cash, positions |-> open_positions,
                          opened |-> <<>>])
              IN  /\ candidates' = cs
                  /\ cash' = r.cash
                  /\ open_positions' = r.positions
                  /\ opened' = r.opened
       ELSE /\ candidates' = <<>>
            /\ opened' = <<>>
            /\ UNCHANGED <<cash, open_positions>>
    /\ pc' = "equity"
    /\ UNCHANGED <<query, verdict, tickers, next_ticker, scanner,
                   scanner_per_ticker, warnings, results,
                   engine, cfg, valid_tickers, day, today, last_close,
                   position, shares, trades, equity_rows, tickers_to_close,
                   day_start, total_days>>

\* ------------------------------------- portfolio: step C, daily equity
\* mutant: a held ticker is marked at its entry price
MarkAtEntry(pos, bars, prior) == pos.entry_signal.price

\* lines 202-210: the price a held ticker is marked at
MarkPrice(pos, bars, prior) ==
    IF bars[pos.ticker] # NoBar THEN bars[pos.ticker]
    ELSE IF prior[pos.ticker] # NoBar THEN prior[pos.ticker]
    ELSE pos.entry_signal.price

\* mutant: a position whose ticker did not trade today is left out
PositionsValueTraded(ps, bars, prior) ==
    SeqSum([i \in 1..Len(ps) |->
               IF bars[ps[i].ticker] = NoBar THEN Zero
               ELSE RMul(ps[i].shares, R(bars[ps[i].ticker]))])

\* lines 199-211
PositionsValue(ps, bars, prior) ==
    SeqSum([i \in 1..Len(ps) |->
               RMul(ps[i].shares, R(MarkPrice(ps[i], bars, prior)))])

\* lines 213-221
EquityRow(date, c, ps, bars, prior) ==
    LET positions_value == PositionsValue(ps, bars, prior)
    IN  [date |-> date,
         equity |-> RAdd(c, positions_value),
         cash |-> c,
         positions_value |-> positions_value,
         num_positions |-> Len(ps)]

NoBars == [t \in Tickers |-> NoBar]

\* the latest close on or before today, kept for the tickers that are held
\* (it is read only for them)
CloseSoFar(ps, bars, prior) ==
    [t \in Tickers |->
        IF t \notin OpenTickers(ps) THEN NoBar
        ELSE IF bars[t] # NoBar THEN bars[t] ELSE prior[t]]

StepC ==
    /\ engine = "portfolio" /\ pc = "equity"
    /\ equity_rows' = Append(equity_rows,
           EquityRow(current_date, cash, open_positions, today, last_close))
    /\ last_close' = CloseSoFar(open_positions, today, last_close)
    /\ \E more \in BOOLEAN :
         IF more /\ day < MaxDays
         THEN /\ day' = day + 1
              /\ pc' = "exits"
         ELSE /\ day' = day
              /\ pc' = "close"
    \* the iteration's locals and the day's rows are not read again
    /\ today' = NoBars
    /\ tickers_to_close' = <<>>
    /\ available_slots' = 0
    /\ candidates' = <<>>
    /\ opened' = <<>>
    /\ UNCHANGED <<query, verdict, tickers, next_ticker, scanner,
                   scanner_per_ticker, warnings, results,
                   engine, cfg, valid_tickers, cash, open_positions,
                   position, shares, trades, day_start, total_days>>

\* ------------------------------------- portfolio: phase 4, forced close
\* mutant: the open positions are closed at their entry price
RECURSIVE ForceCloseAtEntry(_, _, _, _)
ForceCloseAtEntry(ps, prior, last_date, acc) ==
    IF ps = <<>> THEN acc
    ELSE LET pos == Head(ps)
             last_price == pos.entry_signal.price
         IN  ForceCloseAtEntry(Tail(ps), prior, last_date,
               [cash |-> RAdd(acc.cash, RMul(pos.shares, R(last_price))),
                trades |-> Append(acc.trades,
                    MakeTrade(pos.ticker, pos.entry_signal, last_date,
                              last_price, "END_OF_DATA"))])

\* mutant: the final liquidation closes the first open position only
ForceCloseFirst(ps, prior, last_date, acc) ==
    IF ps = <<>> THEN acc
    ELSE LET pos == Head(ps)
             last_price == IF prior[pos.ticker] # NoBar
                           THEN prior[pos.ticker]
                           ELSE pos.entry_signal.price
         IN  [cash |-> RAdd(acc.cash, RMul(pos.shares, R(last_price))),
              trades |-> Append(acc.trades,
                  MakeTrade(pos.ticker, pos.entry_signal, last_date,
                            last_price, "END_OF_DATA"))]

\* lines 225-252: one pass over list(open_positions.items())
RECURSIVE ForceCloseLoop(_, _, _, _)
ForceCloseLoop(ps, prior, last_date, acc) ==
    IF ps = <<>> THEN acc
    ELSE LET pos == Head(ps)
             last_price == IF prior[pos.ticker] # NoBar
                           THEN prior[pos.ticker]
                           ELSE pos.entry_signal.price
         IN  ForceCloseLoop(Tail(ps), prior, last_date,
               [cash |-> RAdd(acc.cash, RMul(pos.shares, R(last_price))),
                trades |-> Append(acc.trades,
                    MakeTrade(pos.ticker, pos.entry_signal, last_date,
                              last_price, "END_OF_DATA"))])

\* mutant: the final row keeps its position value and count
LiquidatedRowKeepValue(row, c) == [row EXCEPT !.equity = c, !.cash = c]

\* lines 254-258
LiquidatedRow(row, c) ==
    [row EXCEPT !.equity = c, !.cash = c, !.positions_value = Zero,
                !.num_positions = 0]

\* mutant: the liquidation is recorded as one more row
AppendLast(rows, row) == Append(rows, row)

\* equity_rows[-1][...] = ...
SetLast(rows, row) == [rows EXCEPT ![Len(rows)] = row]

Phase4 ==
    /\ engine = "portfolio" /\ pc = "close"
    /\ LET r == ForceCloseLoop(open_positions, last_close, current_date,
                    [cash |-> cash, trades |-> trades])
       IN  /\ cash' = r.cash
           /\ trades' = r.trades
           /\ equity_rows' = IF equity_rows # <<>>
                             THEN SetLast(equity_rows,
                                     LiquidatedRow(equity_rows[Len(equity_rows)],
                                                   r.cash))
                             ELSE equity_rows
    /\ total_days' = day
    /\ pc' = "done"
    /\ UNCHANGED <<query, verdict, tickers, next_ticker, scanner,
                   scanner_per_ticker, warnings, results,
                   engine, cfg, valid_tickers, day, today, last_close,
                   open_positions, position, shares, tickers_to_close,
                   available_slots, candidates, opened, day_start>>

\* ------------------------------------------------ single-ticker engine
SimTicker == "A"
None == <<>>

\* mutant: the position is kept after its exit
PositionKept(pos) == pos

\* line 103: position = None
PositionAfterExit(pos) == None

\* line 70
SharesToBuy(c, size, price) == RDiv(RMul(c, size), R(price))

\* line 53: the engine's own scanner is prepared for the ticker; an
\* exception leaves simulate_ticker
SimPrepare ==
    /\ engine = "single" /\ pc = "prepare"
    /\ \E outcome \in PrepareOutcomes \ {"empty"} :
         LET r == PrepareSimulation(scanner, SimTicker, outcome)
         IN  /\ scanner' = r.scanner
             /\ IF r.raised THEN pc' = "raised" /\ day' = day
                ELSE pc' = "day" /\ day' = 1
    /\ UNCHANGED <<query, verdict, tickers, next_ticker,
                   scanner_per_ticker, warnings, results, engine, cfg,
                   valid_tickers, today, last_close, cash,
                   open_positions, position, shares, trades, equity_rows,
                   tickers_to_close, available_slots, candidates, opened,
                   day_start, total_days>>

\* lines 61-114: one iteration of the day loop of simulate_ticker
SimDay ==
    /\ engine = "single" /\ pc = "day"
    /\ day_start' = [cash |-> cash, shares |-> shares]
    /\ \E current_price \in Prices :
         /\ IF position = None
            THEN \E sig \in CheckEntrySignal(scanner, SimTicker) :
                   IF sig # NoSignal
                   THEN LET sh == SharesToBuy(cash, cfg.position_size,
                                              current_price)
                            c == RSub(cash, RMul(sh, R(current_price)))
                            position_value == RMul(sh, R(current_price))
                        IN  /\ shares' = sh
                            /\ cash' = c
                            /\ position' = EntrySignal(current_date,
                                                current_price, "BUY")
                            /\ trades' = trades
                            /\ equity_rows' = Append(equity_rows,
                                 [date |-> current_date,
                                  equity |-> RAdd(c, position_value),
                                  position_value |-> position_value,
                                  cash |-> c])
                   ELSE /\ UNCHANGED <<shares, cash, position, trades>>
                        /\ equity_rows' = Append(equity_rows,
                             [date |-> current_date,
                              equity |-> RAdd(cash, Zero),
                              position_value |-> Zero,
                              cash |-> cash])
            ELSE \E ind \in SimInds :
                   LET reason == CheckExitSignal(current_price,
                                     position.price, ind,
                                     current_date - position.date)
                   IN  IF reason # "NONE"
                       THEN LET c == RAdd(cash,
                                         RMul(shares, R(current_price)))
                            IN  /\ cash' = c
                                /\ trades' = Append(trades,
                                     MakeTrade(SimTicker, position,
                                         current_date, current_price,
                                         reason))
                                /\ position' = PositionAfterExit(position)
                                /\ shares' = Zero
                                /\ equity_rows' = Append(equity_rows,
                                     [date |-> current_date,
                                      equity |-> RAdd(c, Zero),
                                      position_value |-> Zero,
                                      cash |-> c])
                       ELSE LET position_value ==
                                    RMul(shares, R(current_price))
                            IN  /\ UNCHANGED <<shares, cash, position,
                                               trades>>
                                /\ equity_rows' = Append(equity_rows,
                                     [date |-> current_date,
                                      equity |-> RAdd(cash, position_value),
                                      position_value |-> position_value,
                                      cash |-> cash])
         /\ last_close' = [t \in Tickers |->
                             IF t = SimTicker THEN current_price ELSE NoBar]
    /\ \E more \in BOOLEAN :
         IF more /\ day < MaxDays
         THEN /\ day' = day + 1
              /\ pc' = "day"
         ELSE /\ day' = day
              /\ pc' = "close"
    /\ UNCHANGED <<query, verdict, tickers, next_ticker, scanner,
                   scanner_per_ticker, warnings, results,
                   engine, cfg, valid_tickers, today, open_positions,
                   tickers_to_close, available_slots, candidates, opened,
                   total_days>>

\* lines 116-144: forced close and the result's total_days
SimForceClose ==
    /\ engine = "single" /\ pc = "close"
    /\ IF position # None
       THEN LET last_price == last_close[SimTicker]
                c == RAdd(cash, RMul(shares, R(last_price)))
            IN  /\ cash' = c
                /\ trades' = Append(trades,
                     MakeTrade(SimTicker, position, current_date,
                               last_price, "END_OF_DATA"))
                /\ equity_rows' = IF equity_rows # <<>>
                     THEN SetLast(equity_rows,
                            [equity_rows[Len(equity_rows)] EXCEPT
                                !.equity = c, !.position_value = Zero,
                                !.cash = c])
                     ELSE equity_rows
       ELSE UNCHANGED <<cash, trades, equity_rows>>
    /\ total_days' = day
    /\ pc' = "done"
    /\ UNCHANGED <<query, verdict, tickers, next_ticker, scanner,
                   scanner_per_ticker, warnings, results,
                   engine, cfg, valid_tickers, day, today, last_close,
                   open_positions, position, shares, tickers_to_close,
                   available_slots, candidates, opened, day_start>>

\* ------------------------------------------------------- specification
\* position_size as given on the command line (a float, not range-checked)
SingleSizes == {Rat(1, 2), R(1), Rat(3, 2)}
PortfolioSizes == {Rat(3, 5), Rat(7, 10)}
MaxPositionsOpts == {-1, 0, 1, 2}

Init ==
    /\ engine \in {"single", "portfolio"}
    /\ cfg \in [initial_capital : {R(InitialCapital)},
                position_size : IF engine = "single" THEN SingleSizes
                                ELSE PortfolioSizes,
                max_positions : IF engine = "single" THEN {0}
                                ELSE MaxPositionsOpts]
    /\ tickers \in IF engine = "single" THEN {<<SimTicker>>}
                   ELSE Perms(Tickers)
    /\ next_ticker = 1
    /\ scanner = NewScanner
    /\ scanner_per_ticker = <<>>
    /\ warnings = <<>>
    /\ results = <<>>
    /\ valid_tickers = IF engine = "single" THEN <<SimTicker>> ELSE <<>>
    /\ pc = "prepare"
    \* no date of the window has been reached
    /\ day = 0
    /\ today = NoBars
    /\ last_close = NoBars
    /\ cash = cfg.initial_capital
    /\ open_positions = <<>>
    /\ position = None
    /\ shares = Zero
    /\ trades = <<>>
    /\ equity_rows = <<>>
    /\ tickers_to_close = <<>>
    /\ available_slots = 0
    /\ candidates = <<>>
    /\ opened = <<>>
    /\ day_start = [cash |-> cfg.initial_capital]
    /\ total_days = 0
    /\ query = None
    /\ verdict = None

Next ==
    \/ Phase1 \/ Phase2 \/ StepA \/ StepB \/ StepC \/ Phase4
    \/ SimPrepare \/ SimDay \/ SimForceClose

Spec == Init /\ [][Next]_vars

\* ---------------------------------------- scanner: the entry verdict
\* a float that is not a number: an indicator with too little history
RNaN == [n |-> 0, d |-> 0]
IsNaN(x) == x.d = 0

\* a > b on floats: false when either side is not a number
Gt(a, b) == ~IsNaN(a) /\ ~IsNaN(b) /\ RLt(b, a)

RAbs(x) == [n |-> Abs(x.n), d |-> x.d]
RMax(x, y) == IF RLt(x, y) THEN y ELSE x

\* (a - b) / b * 100
Pct(a, b) == RMul(RDiv(RSub(a, b), b), R(100))

\* round(x, 1) as an integer number of tenths, ties to the even neighbour
Round1(x) ==
    LET num == x.n * 10
        q == num \div x.d
        r == num % x.d
    IN  IF 2 * r < x.d THEN q
        ELSE IF 2 * r > x.d THEN q + 1
        ELSE IF q % 2 = 0 THEN q ELSE q + 1

\* mutant: the two tests are alternatives whatever the size of the body
DetectHammerEither(self, open_, high, low, close) ==
    LET total_range == RSub(high, low)
        body == RAbs(RSub(close, open_))
        lower_wick == RSub(RMin(close, open_), low)
        upper_wick == RSub(high, RMax(close, open_))
    IN  /\ ~RLe(total_range, Zero)
        /\ RLt(upper_wick, RMul(total_range, self.params.upper_wick_max))
        /\ \/ /\ RLt(body, RMul(total_range, Rat(5, 100)))
              /\ RLt(RMul(total_range, Rat(6, 10)), lower_wick)
           \/ RLe(RMul(body, self.params.wick_body_ratio), lower_wick)

\* _detect_hammer(self, open_, high, low, close), lines 237-254
DetectHammerOf(self, open_, high, low, close) ==
    LET total_range == RSub(high, low)
        body == RAbs(RSub(close, open_))
        body_top == RMax(close, open_)
        body_bottom == RMin(close, open_)
        lower_wick == RSub(body_bottom, low)
        upper_wick == RSub(high, body_top)
    IN  IF RLe(total_range, Zero) THEN FALSE
        ELSE IF RLt(body, RMul(total_range, Rat(5, 100)))
        THEN /\ RLt(RMul(total_range, Rat(6, 10)), lower_wick)
             /\ RLt(upper_wick,
                    RMul(total_range, self.params.upper_wick_max))
        ELSE /\ RLe(RMul(body, self.params.wick_body_ratio), lower_wick)
             /\ RLt(upper_wick,
                    RMul(total_range, self.params.upper_wick_max))

\* _detect_hammer of a scanner that was not configured
DetectHammer(open_, high, low, close) ==
    DetectHammerOf(NewScanner, open_, high, low, close)

\* max(0, (1 - abs(dist) / tol)) * pts
Proximity(dist, tol, pts) ==
    RMul(RMax(Zero, RSub(R(1), RDiv(RAbs(dist), tol))), R(pts))

\* line 133: recency = max(0.0, 1.0 - ago * 0.3)
Recency(ago) == RMax(Zero, RSub(R(1), RMul(R(ago), Rat(3, 10))))

\* best_signal is None
NoBest == [score |-> Zero, signal |-> "NONE", ma |-> "", ago |-> 0]

\* if s > best_score: best_score, best_signal, best_details = ...
Better(best, signal, s, ma_label, ago) ==
    IF RLt(best.score, s)
    THEN [score |-> s, signal |-> signal, ma |-> ma_label, ago |-> ago]
    ELSE best

\* mutant: a low near the MA is scored as a touch before the candle's shape
\* is looked at
ScoreAgainstTouchFirst(bar, ma_val, is_mid, ma_label, ago, best) ==
    LET close_dist_pct == Pct(bar.c, ma_val)
        low_dist_pct == Pct(bar.l, ma_val)
        low_near_ma == \/ RLe(RAbs(low_dist_pct), touch_pct)
                       \/ RLe(low_dist_pct, Zero)
        tol == RMax(touch_pct, Rat(1, 100))
    IN  IF is_mid /\ RLt(bar.c, ma_val) THEN best
        ELSE IF low_near_ma
        THEN Better(best, "TOUCH",
                 RMul(RAdd(R(25), Proximity(low_dist_pct, tol, 15)),
                      Recency(ago)), ma_label, ago)
        ELSE IF RLe(RAbs(close_dist_pct), approach_pct)
        THEN Better(best, "APPROACHING",
                 RMul(RAdd(R(10),
                           Proximity(close_dist_pct, approach_pct, 15)),
                      Recency(ago)), ma_label, ago)
        ELSE best

\* lines 143-188: one candle against one moving average
ScoreAgainst(bar, ma_val, is_mid, ma_label, ago, best) ==
    LET close_dist_pct == Pct(bar.c, ma_val)
        low_dist_pct == Pct(bar.l, ma_val)
        is_hammer == DetectHammer(bar.o, bar.h, bar.l, bar.c)
        low_near_ma == \/ RLe(RAbs(low_dist_pct), touch_pct)
                       \/ RLe(low_dist_pct, Zero)
        tol == RMax(touch_pct, Rat(1, 100))
    IN  IF is_mid /\ RLt(bar.c, ma_val) THEN best
        ELSE IF is_hammer /\ low_near_ma
        THEN Better(best, "HAMMER",
                 RMul(RAdd(R(40), Proximity(low_dist_pct, tol, 20)),
                      Recency(ago)), ma_label, ago)
        ELSE IF low_near_ma
        THEN Better(best, "TOUCH",
                 RMul(RAdd(R(25), Proximity(low_dist_pct, tol, 15)),
                      Recency(ago)), ma_label, ago)
        ELSE IF RLe(RAbs(close_dist_pct), approach_pct)
        THEN Better(best, "APPROACHING",
                 RMul(RAdd(R(10),
                           Proximity(close_dist_pct, approach_pct, 15)),
                      Recency(ago)), ma_label, ago)
        ELSE best

\* lines 131-188: the candles of the lookback window, oldest first, each
\* against the fast MA and then the medium MA
RECURSIVE BestSignal(_, _)
BestSignal(bars, best) ==
    IF bars = <<>> THEN best
    ELSE LET bar == Head(bars)
             ago == Len(bars) - 1
             b1 == ScoreAgainst(bar, bar.ma10, FALSE, "MA10", ago, best)
             b2 == ScoreAgainst(bar, bar.ma20, TRUE, "MA20", ago, b1)
         IN  BestSignal(Tail(bars), b2)

\* line 221
SignalOf(score) ==
    IF RLe(R(65), score) THEN "STRONG_BUY"
    ELSE IF RLe(R(40), score) THEN "BUY"
    ELSE "WATCH"

\* lines 193-218: the bonuses added to the best candle score.  v holds what
\* _check_entry_at reads at idx: the candles of the lookback window (the
\* last one is the candle at idx) and the indicator values at idx
Bonuses(v) ==
    LET bar == v.bars[Len(v.bars)]
        pct_from_ath == RMul(RDiv(RSub(v.ath, bar.c), v.ath), R(100))
        high_gap == RMul(RDiv(RSub(v.ath, v.recent_high), v.ath), R(100))
        d_spread_pct == Pct(v.mxf, v.mm)
        weekly_full_align == Gt(v.w_last, v.w_mf) /\ Gt(v.w_mf, v.w_mm)
        w_spread_pct == IF IsNaN(v.w_mf) THEN RNaN ELSE Pct(v.w_mf, v.w_mm)
    IN  <<IF RLe(pct_from_ath, R(3)) THEN R(20)
          ELSE IF RLe(pct_from_ath, R(5)) THEN R(15)
          ELSE IF RLe(pct_from_ath, R(10)) THEN R(8)
          ELSE Zero,
          IF RLe(high_gap, R(2)) THEN R(5) ELSE Zero,
          IF Gt(v.mm, v.ms) THEN R(15) ELSE Zero,
          RMin(R(15), RMul(d_spread_pct, R(3))),
          IF weekly_full_align
          THEN RMin(R(15), RAdd(RMul(w_spread_pct, R(2)), R(5)))
          ELSE IF IsNaN(w_spread_pct) THEN Zero
          ELSE RMin(R(5), RMax(Zero, w_spread_pct)),
          IF RLt(bar.o, bar.c) THEN R(5) ELSE Zero>>

\* mutant: the daily filter compares the two fastest averages only
CheckEntryAtTwoAverages(v) ==
    LET bar == v.bars[Len(v.bars)]
        best == BestSignal(v.bars, NoBest)
        best_score == RAdd(best.score, SeqSum(Bonuses(v)))
        score == RMin(R(100), best_score)
    IN  IF IsNaN(v.w_mm) \/ ~Gt(v.w_last, v.w_mm) THEN None
        ELSE IF IsNaN(v.mxf) \/ ~Gt(v.mxf, v.mf) THEN None
        ELSE IF IsNaN(v.mm) \/ RLt(bar.c, v.mm) THEN None
        ELSE IF best.signal = "NONE" THEN None
        ELSE [score |-> Round1(score),
              signal |-> SignalOf(score),
              entry_label |-> <<best.signal, best.ma, best.ago>>]

\* _check_entry_at for idx >= d_slow + 20: the dict it returns, or None
CheckEntryAt(v) ==
    LET bar == v.bars[Len(v.bars)]
        best == BestSignal(v.bars, NoBest)
        best_score == RAdd(best.score, SeqSum(Bonuses(v)))
        score == RMin(R(100), best_score)
    IN  IF IsNaN(v.w_mm) \/ ~Gt(v.w_last, v.w_mm) THEN None
        ELSE IF IsNaN(v.mxf) \/ ~(Gt(v.mxf, v.mf) /\ Gt(v.mf, v.mm))
        THEN None
        ELSE IF RLt(bar.c, v.mm) THEN None
        ELSE IF best.signal = "NONE" THEN None
        ELSE [score |-> Round1(score),
              signal |-> SignalOf(score),
              entry_label |-> <<best.signal, best.ma, best.ago>>]

\* mutant: the constructor keeps the score it is given
ScanResultRaw(ticker, score, signal) ==
    [ticker |-> ticker, score |-> score, signal |-> signal]

\* ScanResult.__post_init__: max(0.0, min(100.0, score)); min and max keep
\* their first argument when the comparison with a NaN is false
ScanResult(ticker, score, signal) ==
    LET capped == IF IsNaN(score) THEN R(100) ELSE RMin(R(100), score)
    IN  [ticker |-> ticker, score |-> RMax(Zero, capped), signal |-> signal]

\* ------------------------------------- the exit rules called on their own
\* the engines' variables while a scanner is exercised on its own
engineVars == <<engine, cfg, valid_tickers, pc, day, today, last_close, cash,
                open_positions, position, shares, trades, equity_rows,
                tickers_to_close, available_slots, candidates, opened,
                day_start, total_days, tickers, next_ticker, scanner,
                scanner_per_ticker, warnings, results>>

EngineIdle ==
    /\ engine = "none"
    /\ cfg = [initial_capital |-> R(InitialCapital),
              position_size |-> R(1), max_positions |-> 0]
    /\ valid_tickers = <<SimTicker>>
    /\ pc = "scanner"
    /\ day = 1
    /\ today = NoBars
    /\ last_close = NoBars
    /\ cash = R(InitialCapital)
    /\ open_positions = <<>>
    /\ position = None
    /\ shares = Zero
    /\ trades = <<>>
    /\ equity_rows = <<>>
    /\ tickers_to_close = <<>>
    /\ available_slots = 0
    /\ candidates = <<>>
    /\ opened = <<>>
    /\ day_start = [cash |-> R(InitialCapital)]
    /\ total_days = 0
    /\ tickers = <<SimTicker>>
    /\ next_ticker = 1
    /\ scanner = NewScanner
    /\ scanner_per_ticker = <<>>
    /\ warnings = <<>>
    /\ results = <<>>

\* the date of the bar the exit is asked for
ExitQueryDate == 100

\* volume of the bar and its 20-bar average (the average includes the bar)
ExitVolumes == {<<0, 0>>, <<1, 1>>, <<2, 1>>, <<3, 1>>}

\* One call check_exit_signal(ticker, ohlcv, position, current_date) by an
\* engine holding a position: entry_idx and idx are the positions of the
\* entry bar and of the current bar in the prepared series; entry_idx = 0
\* stands for an EntrySignal that did not come from prepare_simulation,
\* which yields signals from bar d_slow + 20 on.
ExitQueries ==
    {q \in [entry_idx : {0, d_slow + 20},
            idx : {3, d_mid + 3, d_mid + 4, d_slow + 21},
            entry_price : {100},
            close : {85, 89, 90, 96, 100, 115, 116},
            days_held : {3, 29, 30},
            ind : [ma20 : {NaN, 96, 100, 104},
                   prev2_below : BOOLEAN,
                   vol : {0, 1, 2, 3},
                   vol_avg : {0, 1}]] :
        /\ q.idx > q.entry_idx
        /\ (q.ind.ma20 = NaN) <=> (q.idx < d_mid - 1)
        /\ <<q.ind.vol, q.ind.vol_avg>> \in ExitVolumes}

\* engine.py lines 79-105 (portfolio.py lines 128-154): the exit signal's
\* reason and the Trade recorded for it, None when the position stays open
ExitOutcome(q) ==
    LET reason == ExitVerdict(q)
    IN  [reason |-> reason,
         trade |-> IF reason = "NONE" THEN None
                   ELSE MakeTrade(SimTicker,
                            EntrySignal(ExitQueryDate - q.days_held,
                                        q.entry_price, "BUY"),
                            ExitQueryDate, q.close, reason)]

ExitInit == EngineIdle /\ query = None /\ verdict = None

\* one call is followed from its arguments to what it returns

ExitQuery ==
    /\ query = None
    /\ \E q \in ExitQueries :
         /\ query' = q
         /\ verdict' = ExitOutcome(q)
    /\ UNCHANGED engineVars

ExitNext == ExitQuery

ExitSpec == ExitInit /\ [][ExitNext]_vars

\* ---------------------------------- the entry verdict called on its own
Candle(o, h, l, c, ma10, ma20) ==
    [o |-> R(o), h |-> R(h), l |-> R(l), c |-> R(c),
     ma10 |-> R(ma10), ma20 |-> R(ma20)]

\* the fast and medium MA at the evaluated bar
EvalFast == 1890
EvalMid == 1875

\* candles for the evaluated bar: a hammer with its low below the fast MA,
\* a hammer with its low on it, a plain touch, a close approaching it, a
\* close far above it, and a close below the medium MA
EvalCandles ==
    {Candle(1897, 1901, 1850, 1900, EvalFast, EvalMid),
     Candle(1897, 1901, 1890, 1900, EvalFast, EvalMid),
     Candle(1900, 1905, 1888, 1895, EvalFast, EvalMid),
     Candle(1910, 1925, 1905, 1920, EvalFast, EvalMid),
     Candle(1950, 1960, 1948, 1958, EvalFast, EvalMid),
     Candle(1880, 1885, 1860, 1870, EvalFast, EvalMid)}

\* candles for the earlier bars of the window: nothing near an MA, and a
\* hammer with its low on the fast MA of its day
PriorCandles ==
    {Candle(1952, 1960, 1950, 1955, 1885, 1870),
     Candle(1892, 1896, 1885, 1895, 1885, 1870)}

\* the window is shorter than lookback right after bar d_slow + 20
PriorWindows == {<<>>} \cup {<<a, b>> : a \in PriorCandles, b \in PriorCandles}

\* w_close, w_mf, w_mm at the evaluated bar
WeeklyValues ==
    {<<R(2000), R(1900), R(1800)>>,
     <<R(1900), R(1800), R(1850)>>,
     <<R(1860), R(1870), R(1850)>>,
     <<R(1800), R(1850), R(1850)>>,
     <<R(1900), R(1850), RNaN>>}

RECURSIVE MaxHigh(_)
MaxHigh(bars) ==
    IF bars = <<>> THEN Zero ELSE RMax(Head(bars).h, MaxHigh(Tail(bars)))

\* what _check_entry_at reads at one bar idx >= d_slow + 20
EntryViews ==
    {v \in [bars : {w \o <<e>> : w \in PriorWindows, e \in EvalCandles},
            mxf : {R(1906), R(1990), R(1880)},
            mf : {R(EvalFast)},
            mm : {R(EvalMid)},
            ms : {R(1800), R(1900)},
            weekly : WeeklyValues,
            ath : {R(1965), R(2200)},
            recent_high : {R(1960), R(1965), R(2200)}] :
        /\ Len(v.bars) <= lookback
        /\ RLe(MaxHigh(v.bars), v.recent_high)
        /\ RLe(v.recent_high, v.ath)}

\* the indicator values by the names _check_entry_at gives them
ViewOf(v) ==
    [bars |-> v.bars, mxf |-> v.mxf, mf |-> v.mf, mm |-> v.mm, ms |-> v.ms,
     w_last |-> v.weekly[1], w_mf |-> v.weekly[2], w_mm |-> v.weekly[3],
     ath |-> v.ath, recent_high |-> v.recent_high]

\* the date of the evaluated bar
EntryQueryDate == 100

\* scan(), lines 266-280: the ScanResult made of what _check_entry_at
\* returned for the last bar, or None
Scan(result) ==
    IF result = None THEN None
    ELSE ScanResult(SimTicker, Rat(result.score, 10), result.signal)

\* prepare_simulation, lines 298-306: the EntrySignal stored for a bar and
\* the score in its metadata (in tenths), or None
PrepareEntry(date, price, result) ==
    IF result = None THEN None
    ELSE [entry |-> EntrySignal(date, price, result.signal),
          score |-> result.score,
          entry_label |-> result.entry_label]

\* scores handed to the ScanResult constructor by any scanner
RawScores == {RNaN, R(-50), Zero, Rat(1, 2), R(40), R(100), Rat(2001, 20),
              R(250)}

EntryInit == EngineIdle /\ query = None /\ verdict = None

\* scan and prepare_simulation both call _check_entry_at on a bar ...
CheckEntryCall ==
    /\ query = None
    /\ \E v \in EntryViews :
         /\ query' = [op |-> "check", view |-> v]
         /\ verdict' = CheckEntryAt(ViewOf(v))
    /\ UNCHANGED engineVars

\* ... and scan wraps what it returned in a ScanResult,
ScanCall ==
    /\ query # None /\ query.op = "check"
    /\ query' = [query EXCEPT !.op = "scan"]
    /\ verdict' = Scan(verdict)
    /\ UNCHANGED engineVars

\* prepare_simulation in an EntrySignal stored under the bar's date
PrepareCall ==
    /\ query # None /\ query.op = "check"
    /\ query' = [query EXCEPT !.op = "prepare"]
    /\ verdict' = PrepareEntry(EntryQueryDate,
                       query.view.bars[Len(query.view.bars)].c, verdict)
    /\ UNCHANGED engineVars

ConstructCall ==
    /\ query = None
    /\ \E raw \in RawScores, sig \in {"BUY", "WATCH", "STRONG_BUY"} :
         /\ query' = [op |-> "construct", score |-> raw, signal |-> sig]
         /\ verdict' = ScanResult(SimTicker, raw, sig)
    /\ UNCHANGED engineVars

EntryNext == CheckEntryCall \/ ScanCall \/ PrepareCall \/ ConstructCall

EntrySpec == EntryInit /\ [][EntryNext]_vars

\* ------------------------------- the indicators and the prepared entries
\* A price series is a sequence of bars [o, h, l, c] (integers); the bar at
\* position idx of the DataFrame (from 0) is ohlcv[idx + 1].  The series
\* has a bar on every Monday to Friday, from a Monday on.
DaysPerWeek == 5
WeekOf(idx) == idx \div DaysPerWeek

\* xs.iloc[lo:hi + 1].sum(), by halves
RECURSIVE SumClose(_, _, _)
SumClose(xs, lo, hi) ==
    IF lo > hi THEN 0
    ELSE IF lo = hi THEN xs[lo + 1]
    ELSE LET mid == (lo + hi) \div 2
         IN  SumClose(xs, lo, mid) + SumClose(xs, mid + 1, hi)

\* Series.rolling(window).mean().iloc[idx]
RollingMean(xs, window, idx) ==
    IF idx + 1 < window THEN RNaN
    ELSE Rat(SumClose(xs, idx - window + 1, idx), window)

\* xs.iloc[lo:hi + 1].max()
MaxOf(xs, lo, hi) ==
    LET vals == {xs[i + 1] : i \in lo..hi}
    IN  CHOOSE m \in vals : \A x \in vals : x <= m

\* resample_ohlcv(ohlcv, "W")["Close"]: one bar per calendar week holding a
\* daily bar, labelled with the week's Sunday; its close is that of the
\* week's last daily bar in the series
WeeklyClose(closes) ==
    [w \in 1..(WeekOf(Len(closes) - 1) + 1) |->
        LET last == DaysPerWeek * w - 1
        IN  closes[(IF last < Len(closes) THEN last ELSE Len(closes) - 1)
                   + 1]]

\* the position in the weekly series that reindex(ohlcv.index,
\* method="ffill") gives the daily bar idx: the last week whose Sunday is
\* not after the bar's date, -1 when there is none
WeekSeen(idx) == WeekOf(idx) - 1

\* mutant: the count of weekly bars is not looked at
ComputeIndicatorsAnyWeeks(ohlcv) ==
    LET close == [i \in 1..Len(ohlcv) |-> ohlcv[i].c]
    IN  IF Len(ohlcv) < d_slow + 20 THEN None
        ELSE [close |-> close,
              high |-> [i \in 1..Len(ohlcv) |-> ohlcv[i].h],
              w_close |-> WeeklyClose(close)]

\* _compute_indicators, lines 69-93: None, or the indicators (kept as the
\* series they are computed from and read with IndicatorsAt)
ComputeIndicators(ohlcv) ==
    LET close == [i \in 1..Len(ohlcv) |-> ohlcv[i].c]
        weekly == WeeklyClose(close)
    IN  IF Len(ohlcv) < d_slow + 20 THEN None
        ELSE IF Len(weekly) < w_mid + 2 THEN None
        ELSE [close |-> close,
              high |-> [i \in 1..Len(ohlcv) |-> ohlcv[i].h],
              w_close |-> weekly]

\* the candle at bar j with ind["d_mf"].iloc[j] and ind["d_mm"].iloc[j]
CandleAt(ohlcv, ind, j) ==
    [o |-> R(ohlcv[j + 1].o), h |-> R(ohlcv[j + 1].h),
     l |-> R(ohlcv[j + 1].l), c |-> R(ohlcv[j + 1].c),
     ma10 |-> RollingMean(ind.close, d_fast, j),
     ma20 |-> RollingMean(ind.close, d_mid, j)]

\* what _check_entry_at(idx, ohlcv, ind) reads
IndicatorsAt(ohlcv, ind, idx) ==
    LET min_idx == d_slow + 20
        first == IF idx - lookback + 1 > min_idx THEN idx - lookback + 1
                 ELSE min_idx
        k == WeekSeen(idx)
        from == IF idx - 20 > 0 THEN idx - 20 ELSE 0
    IN  [bars |-> [i \in 1..(idx - first + 1) |->
                      CandleAt(ohlcv, ind, first + i - 1)],
         mxf |-> RollingMean(ind.close, d_xfast, idx),
         mf |-> RollingMean(ind.close, d_fast, idx),
         mm |-> RollingMean(ind.close, d_mid, idx),
         ms |-> RollingMean(ind.close, d_slow, idx),
         w_last |-> IF k < 0 THEN RNaN ELSE R(ind.w_close[k + 1]),
         w_mf |-> IF k < 0 THEN RNaN
                  ELSE RollingMean(ind.w_close, w_fast, k),
         w_mm |-> IF k < 0 THEN RNaN
                  ELSE RollingMean(ind.w_close, w_mid, k),
         ath |-> R(MaxOf(ind.high, 0, idx)),
         recent_high |-> R(MaxOf(ind.high, from, idx))]

\* prepare_simulation(ticker, ohlcv, ...) followed by
\* check_entry_signal(ticker, ..., ohlcv.index[idx]): the stored
\* EntrySignal with its score (in tenths), or None
PreparedEntry(ohlcv, idx) ==
    LET ind == ComputeIndicators(ohlcv)
    IN  IF ind = None THEN None
        ELSE IF idx < d_slow + 20 \/ idx >= Len(ohlcv) THEN None
        ELSE PrepareEntry(idx, ohlcv[idx + 1].c,
                          CheckEntryAt(IndicatorsAt(ohlcv, ind, idx)))

\* ------------------------------- the prepared entries called on their own
\* a steadily rising series: each close is `slope` above the previous one
RisingSeries(n, slope) ==
    [i \in 1..n |->
        LET c == 100 + slope * i
        IN  [o |-> c - 1, h |-> c + 1, l |-> c - 2, c |-> c]]

\* the first bar of the week in which the weekly medium MA is first seen
FirstFullWeek == DaysPerWeek * w_mid

\* series lengths and evaluated bars around that week
LookQueries ==
    {q \in [n : (FirstFullWeek - 3)..(FirstFullWeek + 13),
            idx : (FirstFullWeek - 4)..(FirstFullWeek + 12),
            slope : {1, 2}] : q.idx < q.n}

LookInit == EngineIdle /\ query = None /\ verdict = None

\* a series and a bar of it are chosen; two runs are to be made, one on
\* the whole series and one on the series cut after the bar
LookCall ==
    /\ query = None
    /\ \E q \in LookQueries :
         LET ohlcv == RisingSeries(q.n, q.slope)
         IN  query' = [idx |-> q.idx,
                       full |-> ohlcv,
                       truncated |-> SubSeq(ohlcv, 1, q.idx + 1)]
    /\ verdict' = [pending |-> {"full", "truncated"},
                   full |-> None, truncated |-> None]
    /\ UNCHANGED engineVars

\* one run: prepare_simulation on its series (a fresh scanner), then
\* check_entry_signal for the bar
LookRun ==
    /\ verdict # None
    /\ \E run \in verdict.pending :
         verdict' = [verdict EXCEPT
                        !.pending = @ \ {run},
                        ![run] = PreparedEntry(query[run], query.idx)]
    /\ UNCHANGED <<query, engineVars>>

LookNext == LookCall \/ LookRun

LookSpec == LookInit /\ [][LookNext]_vars

\* ------------------------------------ a scanner prepared for one series
\* scan(ticker, ohlcv, fundamentals), lines 262-280, where ind is what
\* _compute_indicators(ohlcv) returned at line 261
ScanSeries(ohlcv, ind) ==
    IF ind = None THEN None
    ELSE Scan(CheckEntryAt(IndicatorsAt(ohlcv, ind, Len(ohlcv) - 1)))

\* prepare_simulation(ticker, ohlcv, fundamentals), lines 286-296, on the
\* series itself, up to its loop: _sim_entries maps dates (bar positions)
\* to the stored signals
PrepareSeries(s, ticker, ohlcv) ==
    [s EXCEPT !.sim_ticker = ticker,
              !.sim_entries = <<>>,
              !.sim_ind = ComputeIndicators(ohlcv)]

\* lines 297-306: the body of the loop, for bar i
PrepareBar(s, ohlcv, i) ==
    LET result == CheckEntryAt(IndicatorsAt(ohlcv, s.sim_ind, i))
    IN  IF result = None THEN s
        ELSE [s EXCEPT !.sim_entries =
                           Put(@, i, PrepareEntry(i, ohlcv[i + 1].c,
                                                  result))]

\* ohlcv.loc[:as_of_date], base.py line 150
SliceTo(ohlcv, as_of_date) ==
    SubSeq(ohlcv, 1, IF as_of_date + 1 < Len(ohlcv) THEN as_of_date + 1
                     ELSE Len(ohlcv))

\* BaseScanner.check_entry_signal, base.py lines 151-163, on the series
\* cut after the date, where result is what scan returns for it: the
\* signal carries the scan details, which hold no score
DefaultCheckEntry(ohlcv_slice, result, as_of_date) ==
    IF Len(ohlcv_slice) < 50 THEN None
    ELSE IF result = None THEN None
    ELSE [entry |-> EntrySignal(as_of_date,
                        ohlcv_slice[Len(ohlcv_slice)].c, result.signal),
          score |-> NoScore]

\* self._sim_entries.get(as_of_date), line 310
EntryLookup(s, as_of_date) ==
    IF as_of_date \in DOMAIN s.sim_entries
    THEN s.sim_entries[as_of_date] ELSE None

\* series lengths around the two thresholds of _compute_indicators
SeriesLengths ==
    {0, 1, d_slow - 1, d_slow + 19, d_slow + 20,
     DaysPerWeek * (w_mid + 1), DaysPerWeek * (w_mid + 1) + 1,
     DaysPerWeek * (w_mid + 2)}

\* the dates an entry is asked for: every bar of the series and a date
\* after its last bar; a scanner asked about a ticker it was not prepared
\* for is asked about three dates
QueryDates(ohlcv, ticker) ==
    IF ticker = SimTicker THEN 0..Len(ohlcv)
    ELSE {d_slow - 2, d_slow + 19, Len(ohlcv) - 1} \cap 0..Len(ohlcv)

\* pc is "scanner" until prepare_simulation is called, "loop" inside its
\* loop, where day is the bar i the loop has reached, and "prepared" after
SeriesInit == EngineIdle /\ query = None /\ verdict = None

\* the caller reads the ticker's series
SeriesLoad ==
    /\ query = None
    /\ \E n \in SeriesLengths, slope \in {1, 2} :
         query' = [ohlcv |-> RisingSeries(n, slope)]
    /\ UNCHANGED <<verdict, engineVars>>

\* prepare_simulation is called on a new scanner: lines 286-296
SeriesPrepare ==
    /\ query # None /\ pc = "scanner"
    /\ scanner' = PrepareSeries(scanner, SimTicker, query.ohlcv)
    /\ day' = d_slow + 20
    /\ pc' = IF scanner'.sim_ind = None \/ day' >= Len(query.ohlcv)
             THEN "prepared" ELSE "loop"
    /\ UNCHANGED <<query, verdict, engine, cfg, valid_tickers, today,
                   last_close, cash, open_positions, position, shares,
                   trades, equity_rows, tickers_to_close, available_slots,
                   candidates, opened, day_start, total_days, tickers,
                   next_ticker, scanner_per_ticker, warnings, results>>

\* one iteration of the loop of lines 297-306
SeriesPrepareBar ==
    /\ pc = "loop"
    /\ scanner' = PrepareBar(scanner, query.ohlcv, day)
    /\ day' = day + 1
    /\ pc' = IF day' >= Len(query.ohlcv) THEN "prepared" ELSE "loop"
    /\ UNCHANGED <<query, verdict, engine, cfg, valid_tickers, today,
                   last_close, cash, open_positions, position, shares,
                   trades, equity_rows, tickers_to_close, available_slots,
                   candidates, opened, day_start, total_days, tickers,
                   next_ticker, scanner_per_ticker, warnings, results>>

\* the prepared scanner scans the series
SeriesScan ==
    /\ pc = "prepared" /\ verdict = None
    /\ \E ind \in {ComputeIndicators(query.ohlcv)} :
         verdict' = [op |-> "scan",
                     result |-> ScanSeries(query.ohlcv, ind)]
    /\ UNCHANGED <<query, engineVars>>

\* the prepared scanner is asked for the entry of a date: for its own
\* ticker it answers from _sim_entries, for another ticker it scans the
\* series cut after the date
SeriesCheckEntry ==
    /\ pc = "prepared" /\ verdict = None
    /\ \E ticker \in Tickers :
         \E date \in QueryDates(query.ohlcv, ticker) :
           IF scanner.sim_ticker = ticker
           THEN verdict' = [op |-> "check_entry_signal",
                            ticker |-> ticker,
                            date |-> date,
                            result |-> EntryLookup(scanner, date)]
           ELSE \E ohlcv_slice \in {SliceTo(query.ohlcv, date)} :
                \E ind \in {ComputeIndicators(ohlcv_slice)} :
                \E result \in {ScanSeries(ohlcv_slice, ind)} :
                  verdict' = [op |-> "check_entry_signal",
                              ticker |-> ticker,
                              date |-> date,
                              result |-> DefaultCheckEntry(ohlcv_slice,
                                                           result, date)]
    /\ UNCHANGED <<query, engineVars>>

SeriesNext ==
    \/ SeriesLoad
    \/ SeriesPrepare
    \/ SeriesPrepareBar
    \/ SeriesScan
    \/ SeriesCheckEntry

SeriesSpec == SeriesInit /\ [][SeriesNext]_vars

\* ------------------------------------------- configure called on its own
\* the keys of --param flags: declared integer keys, declared float keys and
\* a key the scanner does not declare
ConfigKeys == {"d_fast", "d_mid", "touch_pct", "upper_wick_max", "bogus"}

\* the values of --param flags: "7", "-3", "2.5", ".5", "abc" and ""
ConfigValues == {<<"7">>, <<"-", "3">>, <<"2", ".", "5">>, <<".", "5">>,
                 <<"a", "b", "c">>, <<>>}

\* the flags of one command line, at most this many
MaxParams == 2

\* main.py line 411: params = dict(p.split("=", 1) for p in param)
ConfigCalls ==
    UNION {[keys -> ConfigValues] :
              keys \in {k \in SUBSET ConfigKeys : Cardinality(k) <= MaxParams}}

ConfigInit == EngineIdle /\ query = None /\ verdict = None

\* main.py line 412: scanner_obj.configure(**params) on the new scanner
ConfigCall ==
    /\ query = None
    /\ \E kwargs \in ConfigCalls :
         LET r == Configure(scanner, kwargs)
         IN  /\ query' = [kwargs |-> kwargs]
             /\ scanner' = r.scanner
             /\ verdict' = [raised |-> r.raised]
    /\ UNCHANGED <<engine, cfg, valid_tickers, pc, day, today, last_close,
                   cash, open_positions, position, shares, trades,
                   equity_rows, tickers_to_close, available_slots,
                   candidates, opened, day_start, total_days, tickers,
                   next_ticker, scanner_per_ticker, warnings, results>>

ConfigNext == ConfigCall

ConfigSpec == ConfigInit /\ [][ConfigNext]_vars

\* ------------------------------------ the single-ticker batch driver
\* What the OHLCV cache holds for a ticker decides what simulate_cmd and
\* simulate_ticker do with it:
\*   "missing"  no cache file: the ticker is skipped
\*   "window"   the window selection of lines 44-51 raises
\*   "prepare"  prepare_simulation raises
\*   "loop"     the day loop raises
\*   "short"    too little history: no entry, so no trade
\*   "flat"     no trade; "trades": trades, with this total_return_pct
TickerData ==
    {[kind |-> k, total_return_pct |-> 0] :
        k \in {"missing", "window", "prepare", "loop", "short", "flat"}}
    \cup {[kind |-> "trades", total_return_pct |-> r] : r \in {-5, 10}}

Failing(d) == d.kind \in {"window", "prepare", "loop"}

\* the tickers of the -t flags, in order; a ticker may be given twice
SymbolLists ==
    {<<>>} \cup {<<t>> : t \in Tickers}
           \cup {<<t, u>> : t \in Tickers, u \in Tickers}

\* engine.simulate_ticker(sym, ...) with the shared scanner sc: the
\* scanner after the call, whether the call raised, and the result.  The
\* result names what answered the entry and the exit queries of the run.
SimulateTicker(sc, sym, d) ==
    LET outcome == IF d.kind = "prepare" THEN "raises"
                   ELSE IF d.kind = "short" THEN "short" ELSE "ok"
        r == PrepareSimulation(sc, sym, outcome)
    IN  IF d.kind = "window"
        THEN [scanner |-> sc, raised |-> TRUE, result |-> None]
        ELSE IF r.raised \/ d.kind = "loop"
        THEN [scanner |-> r.scanner, raised |-> TRUE, result |-> None]
        ELSE [scanner |-> r.scanner,
              raised |-> FALSE,
              result |->
                  [ticker |-> sym,
                   num_trades |-> IF d.kind = "trades" THEN 1 ELSE 0,
                   total_return_pct |-> d.total_return_pct,
                   entries |-> IF r.scanner.sim_ticker = sym
                               THEN r.scanner.sim_entries ELSE "default",
                   ind |-> IF r.scanner.sim_ticker = sym
                           THEN r.scanner.sim_ind ELSE "uncached"]]

\* mutant: a failure ends the loop over the symbols
AbortAfterFailure(i, symbols) == Len(symbols) + 1

\* lines 348-349: the exception is logged and the loop goes on
NextAfterFailure(i, symbols) == i + 1

\* sorted(results, key=total_return_pct, reverse=True): stable
RECURSIVE InsertByReturn(_, _)
InsertByReturn(x, rs) ==
    IF rs = <<>> THEN <<x>>
    ELSE IF Head(rs).total_return_pct >= x.total_return_pct
         THEN <<Head(rs)>> \o InsertByReturn(x, Tail(rs))
         ELSE <<x>> \o rs

RECURSIVE SortByReturn(_, _)
SortByReturn(rs, acc) ==
    IF rs = <<>> THEN acc
    ELSE SortByReturn(Tail(rs), InsertByReturn(Head(rs), acc))

\* lines 354-356
Ranked(rs, top) ==
    LET sorted == SortByReturn(rs, <<>>)
    IN  IF top # 0 THEN Take(sorted, top) ELSE sorted

BatchInit ==
    /\ engine = "batch"
    /\ pc = "symbols"
    /\ cfg = [initial_capital |-> R(InitialCapital),
              position_size |-> R(1), max_positions |-> 0]
    /\ valid_tickers = <<>>
    /\ day = 0
    /\ today = NoBars
    /\ last_close = NoBars
    /\ cash = R(InitialCapital)
    /\ open_positions = <<>>
    /\ position = None
    /\ shares = Zero
    /\ trades = <<>>
    /\ equity_rows = <<>>
    /\ tickers_to_close = <<>>
    /\ available_slots = 0
    /\ candidates = <<>>
    /\ opened = <<>>
    /\ day_start = [cash |-> R(InitialCapital)]
    /\ total_days = 0
    /\ verdict = None
    \* the command line and the cache: --top (0 when not given) and what
    \* the cache holds for each ticker
    /\ query \in [top : {0, 1}, data : [Tickers -> TickerData]]
    /\ tickers \in SymbolLists
    /\ next_ticker = 1
    /\ scanner = NewScanner
    /\ scanner_per_ticker = <<>>
    /\ warnings = <<>>
    /\ results = <<>>

\* lines 329-349: one iteration of the loop over the symbols
BatchStep ==
    /\ engine = "batch" /\ pc = "symbols"
    /\ next_ticker <= Len(tickers)
    /\ LET sym == tickers[next_ticker]
           d == query.data[sym]
           r == SimulateTicker(scanner, sym, d)
       IN  IF d.kind = "missing"
           THEN /\ next_ticker' = next_ticker + 1
                /\ UNCHANGED <<scanner, warnings, results>>
           ELSE /\ scanner' = r.scanner
                /\ IF r.raised
                   THEN /\ warnings' = Append(warnings, sym)
                        /\ next_ticker' = NextAfterFailure(next_ticker,
                                                           tickers)
                        /\ UNCHANGED results
                   ELSE /\ results' = IF r.result.num_trades > 0
                                      THEN Append(results, r.result)
                                      ELSE results
                        /\ next_ticker' = next_ticker + 1
                        /\ UNCHANGED warnings
    /\ UNCHANGED <<query, verdict, tickers, scanner_per_ticker, engine, cfg,
                   valid_tickers, pc, day, today, last_close, cash,
                   open_positions, position, shares, trades, equity_rows,
                   tickers_to_close, available_slots, candidates, opened,
                   day_start, total_days>>

\* lines 354-356: the results are ranked by return and cut to --top
BatchFinish ==
    /\ engine = "batch" /\ pc = "symbols"
    /\ next_ticker > Len(tickers)
    /\ results' = Ranked(results, query.top)
    /\ pc' = "done"
    /\ UNCHANGED <<query, verdict, tickers, next_ticker, scanner,
                   scanner_per_ticker, warnings, engine, cfg,
                   valid_tickers, day, today, last_close, cash,
                   open_positions, position, shares, trades, equity_rows,
                   tickers_to_close, available_slots, candidates, opened,
                   day_start, total_days>>

BatchNext == BatchStep \/ BatchFinish

BatchSpec == BatchInit /\ [][BatchNext]_vars

\* ------------------------------------ the window of simulate_ticker
\* A series is n daily bars, Monday to Friday without gaps; bar i (from 0)
\* carries the calendar day DateOfBar(i), counted from the first Monday.
DaysInWeek == 7
DateOfBar(i) == DaysInWeek * (i \div DaysPerWeek) + (i % DaysPerWeek)

\* pd.DateOffset(years=1), in calendar days
YearDays == 365

\* the bar that line 49 takes as the earliest default start
WarmupBars == 50

\* ohlcv.index.searchsorted(date): the number of bars dated before it
SearchSorted(n, date) == Cardinality({i \in 0..(n - 1) : DateOfBar(i) < date})

\* ohlcv.loc[start_date:end_date]: the bars dated within both ends
Loc(n, start_date, end_date) ==
    LET bars == {i \in 0..(n - 1) :
                    start_date <= DateOfBar(i) /\ DateOfBar(i) <= end_date}
    IN  [first |-> IF bars = {} THEN 0
                   ELSE CHOOSE i \in bars : \A j \in bars : i <= j,
         len |-> Cardinality(bars)]

\* start_date=None, end_date=None: the argument left out
NoDate == -1

\* lines 44-51; an index past the end of the series raises IndexError
SimWindow(n, start_date, end_date) ==
    IF end_date = NoDate /\ n = 0
    THEN [raised |-> TRUE]
    ELSE LET end == IF end_date = NoDate THEN DateOfBar(n - 1) ELSE end_date
             one_year_ago == end - YearDays
             start_idx == SearchSorted(n, one_year_ago)
             at == IF start_idx > WarmupBars THEN start_idx
                   ELSE WarmupBars
         IN  IF start_date = NoDate
             THEN IF at >= n
                  THEN [raised |-> TRUE]
                  ELSE [raised |-> FALSE,
                        defaulted |-> TRUE,
                        ohlcv_sim |-> Loc(n, DateOfBar(at), end)]
             ELSE [raised |-> FALSE,
                   defaulted |-> FALSE,
                   ohlcv_sim |-> Loc(n, start_date, end)]

\* lengths around the warm-up, and two long enough for a year of history
\* to begin before and after it
WindowLengths ==
    {0, 1, WarmupBars, WarmupBars + 1, WarmupBars + 2, d_slow + 19, 300,
     320}

\* --start: left out, the dates of bars before, at and after the warm-up,
\* a Saturday, and a date after every series
StartDates ==
    {NoDate, DateOfBar(0), DateOfBar(10), DateOfBar(WarmupBars - 2),
     DateOfBar(WarmupBars - 1), DateOfBar(WarmupBars),
     DateOfBar(WarmupBars + 10), 5, 500}

\* --end
EndDates == {NoDate, DateOfBar(30), DateOfBar(60), DateOfBar(310), 1000}

WindowInit == EngineIdle /\ query = None /\ verdict = None

\* simulate_ticker selects the window of one call
SelectWindow ==
    /\ query = None
    /\ \E n \in WindowLengths, start_date \in StartDates,
          end_date \in EndDates :
           /\ query' = [n |-> n, start_date |-> start_date,
                        end_date |-> end_date]
           /\ verdict' = SimWindow(n, start_date, end_date)
    /\ UNCHANGED <<tickers, next_ticker, scanner, scanner_per_ticker,
                   warnings, results, engine, cfg, valid_tickers, pc, day,
                   today, last_close, cash, open_positions, position,
                   shares, trades, equity_rows, tickers_to_close,
                   available_slots, candidates, opened, day_start,
                   total_days>>

\* lines 55-140 and _build_result, for a scanner s that holds no entry
\* for any date of the window (a run in which an entry is found goes on
\* as SimDay does): each day the position is None, check_entry_signal
\* returns None, and the row holds the cash.  With no row at all,
\* pd.DataFrame([]).set_index("date") raises KeyError.
DayLoopFlat(s, ohlcv_sim, capital) ==
    LET dates == {ohlcv_sim.first + i - 1 : i \in 1..ohlcv_sim.len}
    IN  IF \E date \in dates : EntryLookup(s, date) # None
        THEN [raised |-> FALSE, entered |-> TRUE]
        ELSE IF ohlcv_sim.len = 0
        THEN [raised |-> TRUE]
        ELSE [raised |-> FALSE,
              entered |-> FALSE,
              trades |-> <<>>,
              equity_curve |-> [i \in 1..ohlcv_sim.len |->
                                   [date |-> ohlcv_sim.first + i - 1,
                                    equity |-> capital,
                                    position_value |-> Zero,
                                    cash |-> capital]],
              num_trades |-> 0,
              total_days |-> ohlcv_sim.len]

\* lines 53-140 of a call whose window was selected, on a series too
\* short for the indicators: prepare_simulation, the day loop and the
\* result
SimulateShort ==
    /\ verdict # None /\ ~verdict.raised
    /\ query.n < d_slow + 20
    /\ results = <<>>
    /\ scanner' = PrepareSeries(scanner, SimTicker, RisingSeries(query.n, 1))
    /\ results' = <<DayLoopFlat(scanner', verdict.ohlcv_sim,
                                R(InitialCapital))>>
    /\ UNCHANGED <<query, verdict, tickers, next_ticker, scanner_per_ticker,
                   warnings, engine, cfg, valid_tickers, pc, day, today,
                   last_close, cash, open_positions, position, shares,
                   trades, equity_rows, tickers_to_close, available_slots,
                   candidates, opened, day_start, total_days>>

WindowNext == SelectWindow \/ SimulateShort

WindowSpec == WindowInit /\ [][WindowNext]_vars

\* ------------------------------------- _detect_hammer called on its own
\* --param values for the two thresholds of the candle test
HammerParams ==
    UNION {[keys -> {<<".", "5">>, <<"2", ".", "5">>, <<"7">>}] :
              keys \in SUBSET {"upper_wick_max", "wick_body_ratio"}}

\* candles with Low 0: a High, and an Open and a Close within the range
CandleHighs == {0, 20, 40}

HammerInit == EngineIdle /\ query = None /\ verdict = None

\* the scanner is configured, or left with its defaults (no flag)
HammerConfigure ==
    /\ query = None /\ pc = "scanner"
    /\ \E kwargs \in HammerParams :
         scanner' = Configure(scanner, kwargs).scanner
    /\ pc' = "configured"
    /\ UNCHANGED <<query, verdict, engine, cfg, valid_tickers, day, today,
                   last_close, cash, open_positions, position, shares,
                   trades, equity_rows, tickers_to_close, available_slots,
                   candidates, opened, day_start, total_days, tickers,
                   next_ticker, scanner_per_ticker, warnings, results>>

\* _detect_hammer is called on one candle
HammerCall ==
    /\ query = None /\ pc = "configured"
    /\ \E high \in CandleHighs :
         \E open_ \in 0..high, close \in 0..high :
           /\ query' = [o |-> open_, h |-> high, l |-> 0, c |-> close]
           /\ verdict' = [is_hammer |->
                              DetectHammerOf(scanner, R(open_), R(high),
                                             R(0), R(close))]
    /\ UNCHANGED engineVars

HammerNext == HammerConfigure \/ HammerCall

HammerSpec == HammerInit /\ [][HammerNext]_vars

\* ------------------------------------- the trend gate called on its own
\* an indicator value at the evaluated bar: a number or NaN
GateFast == {R(1906), R(1880), RNaN}
GateMid == {R(EvalFast), R(1870), RNaN}
GateLong == {R(EvalMid), RNaN}

\* what _check_entry_at reads at a bar whose averages and weekly values
\* may be undefined or out of order
GateViews ==
    [bars : {<<e>> : e \in EvalCandles},
     mxf : GateFast,
     mf : GateMid,
     mm : GateLong,
     ms : {R(1800)},
     weekly : WeeklyValues \cup {<<RNaN, R(1850), R(1800)>>},
     ath : {R(2200)},
     recent_high : {R(1965)}]

GateInit == EngineIdle /\ query = None /\ verdict = None

\* _check_entry_at is called on one bar
GateCall ==
    /\ query = None
    /\ \E v \in GateViews :
         /\ query' = ViewOf(v)
         /\ verdict' = [result |-> CheckEntryAt(ViewOf(v))]
    /\ UNCHANGED engineVars

GateNext == GateCall

GateSpec == GateInit /\ [][GateNext]_vars

\* ------------------------- BaseScanner.check_exit_signal called on its own
\* mutant: the time exit is looked at before the stop-loss
BaseCheckExitTimeFirst(ohlcv_slice, entry_signal, as_of) ==
    LET current_price == ohlcv_slice[Len(ohlcv_slice)]
    IN  IF ohlcv_slice = <<>> THEN None
        ELSE IF as_of - entry_signal.date >= 30
        THEN [date |-> as_of, price |-> current_price,
              reason |-> "TIME_EXIT"]
        ELSE IF 100 * current_price < entry_signal.price * 90
        THEN [date |-> as_of, price |-> current_price,
              reason |-> "STOP_LOSS"]
        ELSE None

\* base.py lines 178-202, on ohlcv.loc[:current_date]["Close"] with
\* current_date as as_of: the ExitSignal or None
BaseCheckExitSignal(ohlcv_slice, entry_signal, as_of) ==
    LET current_price == ohlcv_slice[Len(ohlcv_slice)]
        entry_price == entry_signal.price
        days_held == as_of - entry_signal.date
    IN  IF ohlcv_slice = <<>> THEN None
        ELSE IF 100 * current_price < entry_price * 90
        THEN [date |-> as_of, price |-> current_price,
              reason |-> "STOP_LOSS"]
        ELSE IF days_held >= 30
        THEN [date |-> as_of, price |-> current_price,
              reason |-> "TIME_EXIT"]
        ELSE None

\* closes around 90% of the two entry prices
BaseCloses == {17, 18, 19, 89, 90, 91, 120}

\* the closes up to the current date: none, one or two
BaseSlices ==
    {<<>>} \cup {<<c>> : c \in BaseCloses}
           \cup {<<b, c>> : b \in BaseCloses, c \in BaseCloses}

\* open entries: at 20 or at 100, made today or 1, 29, 30, 31 or 45 days
\* before the current date
BaseEntries ==
    {[date |-> ExitQueryDate - held, price |-> price] :
        held \in {0, 1, 29, 30, 31, 45}, price \in {20, 100}}

BaseExitInit == EngineIdle /\ query = None /\ verdict = None

\* the default check_exit_signal is called for one open entry
BaseExitCall ==
    /\ query = None
    /\ \E ohlcv_slice \in BaseSlices, entry_signal \in BaseEntries :
         /\ query' = [ohlcv_slice |-> ohlcv_slice,
                      entry_signal |-> entry_signal,
                      current_date |-> ExitQueryDate]
         /\ verdict' = [result |-> BaseCheckExitSignal(ohlcv_slice,
                                       entry_signal, ExitQueryDate)]
    /\ UNCHANGED engineVars

BaseExitNext == BaseExitCall

BaseExitSpec == BaseExitInit /\ [][BaseExitNext]_vars

\* ------------------------------- the simulation cache queried on its own
\* check_entry_signal, lines 308-311: what answers a query for `ticker`,
\* the table _sim_entries (named by the ticker it was computed from) or
\* the default of BaseScanner, which truncates, requires 50 bars and scans
EntryAnsweredBy(s, ticker) ==
    IF s.sim_ticker # Unset /\ s.sim_ticker = ticker
    THEN [from |-> "_sim_entries", of |-> s.sim_entries]
    ELSE [from |-> "super", of |-> ticker]

\* check_exit_signal, lines 336-355 (use_cache): the indicators that
\* give the MA20 of an exit query for `ticker`, the cached ones or the
\* rolling mean of the truncated series
ExitAnsweredBy(s, ticker) ==
    IF s.sim_ind # Unset /\ s.sim_ind # NoInd /\ s.sim_ticker = ticker
    THEN [from |-> "_sim_ind", of |-> s.sim_ind]
    ELSE [from |-> "rolling", of |-> ticker]

\* how many times prepare_simulation is called on the one scanner
MaxPrepares == 3

CacheInit == EngineIdle /\ query = None /\ verdict = None

\* prepare_simulation(ticker, ...) is called; `results` records the calls
CachePrepare ==
    /\ Len(results) < MaxPrepares
    /\ \E ticker \in Tickers, outcome \in {"ok", "short", "raises"} :
         \E r \in {PrepareSimulation(scanner, ticker, outcome)} :
           /\ scanner' = r.scanner
           /\ pc' = IF r.raised THEN "raised" ELSE "prepared"
           /\ results' = Append(results, [ticker |-> ticker,
                                          outcome |-> outcome])
    /\ query' = None
    /\ verdict' = None
    /\ UNCHANGED <<engine, cfg, valid_tickers, day, today, last_close, cash,
                   open_positions, position, shares, trades, equity_rows,
                   tickers_to_close, available_slots, candidates, opened,
                   day_start, total_days, tickers, next_ticker,
                   scanner_per_ticker, warnings>>

\* check_entry_signal(ticker, ...) is called
CacheCheckEntry ==
    /\ \E ticker \in Tickers :
         /\ query' = [op |-> "check_entry_signal", ticker |-> ticker]
         /\ verdict' = EntryAnsweredBy(scanner, ticker)
    /\ UNCHANGED engineVars

\* check_exit_signal(ticker, ...) is called on a long enough series
CacheCheckExit ==
    /\ \E ticker \in Tickers :
         /\ query' = [op |-> "check_exit_signal", ticker |-> ticker]
         /\ verdict' = ExitAnsweredBy(scanner, ticker)
    /\ UNCHANGED engineVars

CacheNext == CachePrepare \/ CacheCheckEntry \/ CacheCheckExit

CacheSpec == CacheInit /\ [][CacheNext]_vars

\* ================================================================ claims
Last(s) == s[Len(s)]

IndexOf(s, x) == CHOOSE i \in 1..Len(s) : s[i] = x

\* the tickers held when the entry step of the current day began
HeldBeforeEntries ==
    {t \in OpenTickers(day_start.positions) :
        t \notin Range(tickers_to_close)}

\* the close a ticker held since the start of the day is valued at today
DayPrice(t) == IF today[t] # NoBar THEN today[t] ELSE last_close[t]

\* the single-ticker engine opened its position on the latest simulated day
EnteredToday ==
    /\ engine = "single" /\ position # None /\ equity_rows # <<>>
    /\ Last(equity_rows).date = position.date

\* C1: a ticker has at most one open position in either engine; an entry is
\* never executed for a ticker that holds an open position: the portfolio's
\* open positions have distinct tickers, every ticker opened in an entry
\* step was not held when the step began and adds one position, and the
\* single-ticker engine enters only when it held no shares at day start.
C1_OnePositionPerTicker ==
    /\ engine = "portfolio" =>
         /\ \A i, j \in 1..Len(open_positions) :
                i # j => open_positions[i].ticker # open_positions[j].ticker
         /\ pc = "equity" =>
              /\ \A i \in 1..Len(opened) : opened[i] \notin HeldBeforeEntries
              /\ \A i, j \in 1..Len(opened) : i # j => opened[i] # opened[j]
              /\ Len(open_positions) =
                     Cardinality(HeldBeforeEntries) + Len(opened)
    /\ engine = "single" =>
         /\ EnteredToday => day_start.shares = Zero
         /\ position = None => shares = Zero

\* C1 witness: a ticker that is held and trades today stays a single
\* position while the other ticker is opened in the same entry step
C1_Witness ==
    /\ engine = "portfolio" /\ pc = "equity"
    /\ \E t \in HeldBeforeEntries : today[t] # NoBar
    /\ opened # <<>>

\* C2: the number of open positions never exceeds max_positions, and no
\* position is ever open when max_positions <= 0.
C2_MaxPositions ==
    engine = "portfolio" =>
        Len(open_positions) <=
            (IF cfg.max_positions > 0 THEN cfg.max_positions ELSE 0)

\* C2 witness: two candidates fire with one slot, and one is opened
C2_Witness ==
    /\ engine = "portfolio" /\ pc = "equity"
    /\ cfg.max_positions = 1
    /\ Len(candidates) = 2 /\ Len(opened) = 1
    /\ Len(open_positions) = 1

\* C3 (as claimed): in both engines the capital committed by an entry does
\* not exceed the cash available before it, so cash never goes below zero.
C3_CommitWithinCash ==
    /\ RLe(Zero, cash)
    /\ EnteredToday =>
           RLe(RMul(shares, R(position.price)), day_start.cash)

\* C4: in the portfolio engine the exit step adds to cash exactly
\* shares x exit_price of each position it closes, the entry step subtracts
\* exactly shares x entry_price of each position it opens, and the equity
\* step leaves cash unchanged.
C4Step ==
    engine = "portfolio" =>
        /\ pc = "exits" =>
             /\ Len(trades') = Len(trades) + Len(tickers_to_close')
             /\ cash' = RAdd(cash, SeqSum(
                    [i \in 1..Len(tickers_to_close') |->
                        RMul(PosOf(open_positions,
                                   tickers_to_close'[i]).shares,
                             R(trades'[Len(trades) + i].exit_price))]))
        /\ pc = "entries" =>
             cash' = RSub(cash, SeqSum(
                 [i \in 1..Len(opened') |->
                     RMul(PosOf(open_positions', opened'[i]).shares,
                          R(PosOf(open_positions',
                                  opened'[i]).entry_signal.price))]))
        /\ pc = "equity" => cash' = cash

\* C4 as a property of every step: cash changes only by the exits' proceeds
\* and the entries' costs
C4_CashConservation == [][C4Step]_vars

\* C4 witness: a day on which a position was closed and one was opened
C4_Witness ==
    /\ engine = "portfolio" /\ pc = "equity"
    /\ tickers_to_close # <<>>
    /\ opened # <<>>

\* C5: the equity recorded for a day equals the cash at the start of the
\* day plus the holdings at the start of the day valued at the day's mark
\* price, whatever exits and entries were executed that day, and the forced
\* close leaves the final row's equity unchanged.
C5Step ==
    /\ (engine = "portfolio" /\ pc = "equity") =>
           Last(equity_rows').equity =
               RAdd(day_start.cash, SeqSum(
                   [i \in 1..Len(day_start.positions) |->
                       RMul(day_start.positions[i].shares,
                            R(DayPrice(day_start.positions[i].ticker)))]))
    /\ (engine = "single" /\ pc = "day") =>
           Last(equity_rows').equity =
               RAdd(cash, RMul(shares, R(last_close'[SimTicker])))
    /\ pc = "close" => Last(equity_rows').equity = Last(equity_rows).equity

\* C5 as a property of every step that records or rewrites an equity row
C5_EquityContinuous == [][C5Step]_vars

\* C5 witness: a held position is marked away from its entry price on a
\* day on which another position is opened
C5_Witness ==
    /\ engine = "portfolio" /\ pc = "equity"
    /\ opened # <<>>
    /\ \E i \in 1..Len(open_positions) :
          LET pos == open_positions[i]
          IN  /\ pos.ticker \in HeldBeforeEntries
              /\ today[pos.ticker] # NoBar
              /\ today[pos.ticker] # pos.entry_signal.price

\* C6: each day runs exits, then entries, then the equity row; the entry
\* step counts its slots after the day's closed positions are gone, and
\* days only advance.
C6Step ==
    /\ day' >= day
    /\ engine = "portfolio" =>
         /\ pc = "exits" => pc' = "entries" /\ day' = day
         /\ pc = "entries" =>
              /\ pc' = "equity" /\ day' = day
              /\ \A i \in 1..Len(tickers_to_close) :
                     tickers_to_close[i] \notin OpenTickers(open_positions)
              /\ available_slots' =
                     cfg.max_positions
                       - (Len(day_start.positions) - Len(tickers_to_close))
         /\ pc = "equity" =>
              \/ pc' = "exits" /\ day' = day + 1
              \/ pc' = "close" /\ day' = day

\* C6 as a property of every step: exits, then entries, then the row
C6_ExitsBeforeEntries == [][C6Step]_vars

\* C6 witness: with one slot, the position closed today makes room for the
\* position opened today
C6_Witness ==
    /\ engine = "portfolio" /\ pc = "equity"
    /\ cfg.max_positions = 1
    /\ Len(tickers_to_close) = 1
    /\ Len(opened) = 1

\* C7: the candidates are in descending score order and the positions
\* opened are the first ones of that list, at most available_slots of them.
C7_OpenedIsTopPrefix ==
    (engine = "portfolio" /\ pc = "equity") =>
        /\ \A i, j \in 1..Len(candidates) :
               i < j => candidates[i].score >= candidates[j].score
        /\ Len(opened) <= Len(candidates)
        /\ opened # <<>> => Len(opened) <= available_slots
        /\ \A i \in 1..Len(opened) : opened[i] = candidates[i].ticker

\* C7 witness: one slot, two firing tickers, and the one scanned second
\* has the higher score and is the only one opened
C7_Witness ==
    /\ engine = "portfolio" /\ pc = "equity"
    /\ cfg.max_positions = 1
    /\ Len(candidates) = 2
    /\ candidates[1].score > candidates[2].score
    /\ candidates[1].ticker = valid_tickers[2]
    /\ opened = <<candidates[1].ticker>>

\* C8: candidates of equal score are selected in the order of the caller's
\* ticker list.
C8_TiesKeepScanOrder ==
    (engine = "portfolio" /\ pc = "equity") =>
        \A i, j \in 1..Len(candidates) :
            (i < j /\ candidates[i].score = candidates[j].score) =>
                IndexOf(valid_tickers, candidates[i].ticker)
                    < IndexOf(valid_tickers, candidates[j].ticker)

\* C8 witness: two candidates tie and the tie decides which one is opened
C8_Witness ==
    /\ engine = "portfolio" /\ pc = "equity"
    /\ Len(candidates) = 2
    /\ candidates[1].score = candidates[2].score
    /\ opened = <<valid_tickers[1]>>

\* C10: one equity row per simulated day, in ascending date order, so the
\* curve's length is the number of days simulated (total_days on return).
C10_OneRowPerDay ==
    /\ pc \in {"exits", "entries", "equity", "day"} =>
           Len(equity_rows) = day - 1
    /\ pc \in {"close", "done"} => Len(equity_rows) = day
    /\ pc = "done" => total_days = Len(equity_rows)
    /\ \A i \in 1..Len(equity_rows) : equity_rows[i].date = i * DayGap
    /\ \A i \in 1..(Len(equity_rows) - 1) :
           equity_rows[i].date < equity_rows[i + 1].date

\* C10 witness: a finished two-day run with a row recorded while a position
\* was open, a row recorded flat, and a forced close
C10_Witness ==
    /\ pc = "done" /\ Len(equity_rows) >= 2
    /\ \E i \in 1..Len(trades) : trades[i].exit_reason = "END_OF_DATA"
    /\ equity_rows[1].equity = equity_rows[1].cash

\* C11: when a simulation returns, the final equity row shows a full
\* liquidation (position value 0, no open position counted, equity = cash =
\* the engine's cash); the forced liquidation rewrites the final row only,
\* and no step modifies a row that was appended earlier.
C11Step ==
    /\ Len(equity_rows') >= Len(equity_rows)
    /\ \A i \in 1..Len(equity_rows) :
           (i < Len(equity_rows) \/ pc # "close") =>
               equity_rows'[i] = equity_rows[i]
    /\ pc = "close" => Len(equity_rows') = Len(equity_rows)
    /\ (pc' = "done" /\ equity_rows' # <<>>) =>
           LET row == Last(equity_rows')
           IN  /\ row.equity = row.cash
               /\ row.cash = cash'
               /\ engine = "portfolio" =>
                      row.positions_value = Zero /\ row.num_positions = 0
               /\ engine = "single" => row.position_value = Zero

\* C11 as a property of every step
C11_FinalRowLiquidated == [][C11Step]_vars

\* C11 witness: a finished portfolio run whose first row was recorded with
\* a position open and whose final row was rewritten by the forced close
C11_Witness ==
    /\ engine = "portfolio" /\ pc = "done"
    /\ Len(open_positions) > 0
    /\ Len(equity_rows) = 2
    /\ equity_rows[1].num_positions > 0
    /\ Last(equity_rows).num_positions = 0

\* C12: every position still open after the last simulated day is closed by
\* a trade with reason END_OF_DATA, dated the final simulated date, at the
\* ticker's latest close on or before that date; no other step records an
\* END_OF_DATA trade.
C12Step ==
    /\ pc # "close" =>
           \A i \in (Len(trades) + 1)..Len(trades') :
               trades'[i].exit_reason # "END_OF_DATA"
    /\ (pc = "close" /\ engine = "portfolio") =>
           /\ Len(trades') = Len(trades) + Len(open_positions)
           /\ \A i \in 1..Len(open_positions) :
                  LET pos == open_positions[i]
                      t == trades'[Len(trades) + i]
                  IN  /\ t.ticker = pos.ticker
                      /\ t.entry_date = pos.entry_signal.date
                      /\ t.exit_reason = "END_OF_DATA"
                      /\ t.exit_date = Last(equity_rows).date
                      /\ last_close[pos.ticker] # NoBar
                      /\ t.exit_price = last_close[pos.ticker]
    /\ (pc = "close" /\ engine = "single") =>
           IF position = None THEN trades' = trades
           ELSE /\ Len(trades') = Len(trades) + 1
                /\ LET t == Last(trades')
                   IN  /\ t.entry_date = position.date
                       /\ t.exit_reason = "END_OF_DATA"
                       /\ t.exit_date = Last(equity_rows).date
                       /\ t.exit_price = last_close[SimTicker]

\* C12 as a property of every step
C12_EndOfDataClose == [][C12Step]_vars

\* C12 witness: a position entered on the first day is closed by the forced
\* close on the second day at a close that differs from its entry price
C12_Witness ==
    /\ engine = "portfolio" /\ pc = "done"
    /\ \E i \in 1..Len(trades) :
          /\ trades[i].exit_reason = "END_OF_DATA"
          /\ trades[i].hold_days = DayGap
          /\ trades[i].exit_price # trades[i].entry_price

\* C16: every recorded trade, signal exit or forced close, has return_pct =
\* (exit_price - entry_price) / entry_price x 100 rounded to two decimals
\* (here in hundredths: the nearest integer to the exact value, ties to the
\* even one), and is a win exactly when return_pct > 0.
C16_TradeReturn ==
    \A i \in 1..Len(trades) :
        LET t == trades[i]
            \* (exact return - return_pct) x 100 x entry_price
            err == 10000 * (t.exit_price - t.entry_price)
                     - t.return_pct * t.entry_price
        IN  /\ 2 * Abs(err) <= t.entry_price
            /\ 2 * Abs(err) = t.entry_price => t.return_pct % 2 = 0
            /\ IsWin(t) <=> t.return_pct > 0
            /\ IsWin(t) => t.exit_price > t.entry_price

\* C16 witness: a losing signal exit with a return that needs rounding and
\* a forced close are both recorded
C16_Witness ==
    /\ \E i \in 1..Len(trades) :
          /\ trades[i].exit_reason = "STOP_LOSS"
          /\ trades[i].return_pct = -1667
          /\ ~IsWin(trades[i])
    /\ \E i \in 1..Len(trades) : trades[i].exit_reason = "END_OF_DATA"

\* the position was entered on a signal of prepare_simulation and the exit
\* is asked on a later bar
AfterOwnEntry(q) == q.entry_idx >= d_slow + 20 /\ q.idx > q.entry_idx

\* the call has enough bars for the rules to be evaluated
Evaluable(q) == q.idx + 1 >= d_mid + 5 /\ q.ind.ma20 # NaN

\* C13: on a bar after an entry of the entry-point scanner whose close is
\* more than 10% below the entry price, the position is closed that day at
\* that close with reason STOP_LOSS, whichever other rules match; a close
\* 11% below the entry gives a Trade with return_pct = -11.00.
C13_StopLoss ==
    (verdict # None /\ AfterOwnEntry(query)
       /\ 10 * query.close < 9 * query.entry_price) =>
        /\ verdict.reason = "STOP_LOSS"
        /\ verdict.trade # None
        /\ verdict.trade.exit_reason = "STOP_LOSS"
        /\ verdict.trade.exit_price = query.close
        /\ verdict.trade.exit_date = ExitQueryDate
        /\ verdict.trade.return_pct < -1000
        /\ (100 * query.close = 89 * query.entry_price) =>
               verdict.trade.return_pct = -1100

\* C13 witness: a close 11% below the entry on a bar where the
\* three-closes, sharp-drop, volume and time rules match too
C13_Witness ==
    /\ verdict # None /\ AfterOwnEntry(query)
    /\ query.close = 89 /\ query.entry_price = 100
    /\ query.ind.prev2_below /\ query.ind.ma20 = 100
    /\ query.ind.vol = 3 /\ query.days_held = 30
    /\ verdict.trade # None
    /\ verdict.trade.return_pct = -1100

\* C14: the exit rules are tried in the order STOP_LOSS, PROFIT_TARGET,
\* MA20_BREAKDOWN (three consecutive closes below the medium MA),
\* SHARP_DROP, VOLUME_BREAKDOWN, TIME_EXIT; the reason returned is that of
\* the first rule that holds, and a query returns at most one exit.
C14_FirstRuleWins ==
    (verdict # None /\ Evaluable(query)) =>
        LET q == query
            holds == [r \in 1..6 |->
                CASE r = 1 -> 10 * q.close < 9 * q.entry_price
                  [] r = 2 -> 100 * q.close > 115 * q.entry_price
                  [] r = 3 -> q.ind.prev2_below /\ q.close < q.ind.ma20
                  [] r = 4 -> 100 * (q.ind.ma20 - q.close) > 5 * q.ind.ma20
                  [] r = 5 -> /\ q.close < q.ind.ma20
                              /\ q.ind.vol_avg > 0
                              /\ q.ind.vol > 2 * q.ind.vol_avg
                  [] r = 6 -> q.days_held >= 30]
            names == <<"STOP_LOSS", "PROFIT_TARGET", "MA20_BREAKDOWN",
                       "SHARP_DROP", "VOLUME_BREAKDOWN", "TIME_EXIT">>
        IN  /\ (\A r \in 1..6 : ~holds[r]) =>
                   verdict.reason = "NONE" /\ verdict.trade = None
            /\ \A r \in 1..6 :
                   (holds[r] /\ \A k \in 1..(r - 1) : ~holds[k]) =>
                       /\ verdict.reason = names[r]
                       /\ verdict.trade # None
                       /\ verdict.trade.exit_reason = names[r]

\* C14 witness: the three-closes rule wins on a bar where the sharp-drop,
\* volume and time rules hold too
C14_Witness ==
    /\ verdict # None /\ Evaluable(query)
    /\ verdict.reason = "MA20_BREAKDOWN"
    /\ 100 * (query.ind.ma20 - query.close) > 5 * query.ind.ma20
    /\ query.ind.vol > 2 * query.ind.vol_avg
    /\ query.days_held >= 30

\* C15 (as claimed): when no rule of higher priority matches, the volume
\* rule fires on every bar whose close is below the medium MA and whose
\* volume is at least twice a positive 20-bar average, exactly twice
\* included.
C15_VolumeAtLeastTwice ==
    (verdict # None /\ Evaluable(query)
       /\ 10 * query.close >= 9 * query.entry_price
       /\ 100 * query.close <= 115 * query.entry_price
       /\ ~(query.ind.prev2_below /\ query.close < query.ind.ma20)
       /\ 100 * (query.ind.ma20 - query.close) <= 5 * query.ind.ma20
       /\ query.close < query.ind.ma20
       /\ query.ind.vol_avg > 0
       /\ query.ind.vol >= 2 * query.ind.vol_avg) =>
        verdict.reason = "VOLUME_BREAKDOWN"

\* the call was answered with a verdict for its bar
Answered(op) == query # None /\ query.op = op /\ verdict # None

\* C17: a ScanResult has 0 <= score <= 100 whatever score its constructor
\* was given, and every score the entry-point scanner puts in a ScanResult
\* or in the metadata of a precomputed EntrySignal lies in [0, 100].
C17_ScoreInRange ==
    /\ (Answered("construct") \/ Answered("scan")) =>
           RLe(Zero, verdict.score) /\ RLe(verdict.score, R(100))
    /\ Answered("prepare") => verdict.score \in 0..1000

\* C17 witness: a scan whose candle score and bonuses add up to more than
\* 100 returns a ScanResult of score 100
C17_Witness ==
    /\ Answered("scan") /\ verdict.score = R(100)
    /\ LET v == ViewOf(query.view)
       IN  RLt(R(100), RAdd(BestSignal(v.bars, NoBest).score,
                            SeqSum(Bonuses(v))))

\* C19 (as claimed): the category of every verdict agrees with the score it
\* reports: STRONG_BUY exactly when score >= 65, BUY exactly when
\* 40 <= score < 65, WATCH exactly when score < 40.
C19_CategoryMatchesScore ==
    Answered("prepare") =>
        /\ verdict.entry.reason = "STRONG_BUY" <=> verdict.score >= 650
        /\ verdict.entry.reason = "BUY" <=>
               (400 <= verdict.score /\ verdict.score < 650)
        /\ verdict.entry.reason = "WATCH" <=> verdict.score < 400

\* the trend gate of _check_entry_at passes on the view
TrendGate(v) ==
    /\ Gt(v.w_last, v.w_mm)
    /\ Gt(v.mxf, v.mf) /\ Gt(v.mf, v.mm)
    /\ RLe(v.mm, v.bars[Len(v.bars)].c)

\* the evaluated candle is a hammer with its low within the touch
\* tolerance of the fast MA, or below it
HammerAtFast(v) ==
    LET bar == v.bars[Len(v.bars)]
    IN  /\ DetectHammer(bar.o, bar.h, bar.l, bar.c)
        /\ RLe(RMul(bar.l, R(1000)), RMul(bar.ma10, R(1005)))

C18_NoLookAhead ==
    (verdict # None /\ verdict.pending = {}) =>
        verdict.full = verdict.truncated

\* the day's rows as a run without the tickers whose preparation raised
\* holds them: such a ticker has no rows there
WithoutFailed(bars) ==
    [t \in Tickers |-> IF t \in Range(warnings) THEN NoBar ELSE bars[t]]

\* one step of the portfolio run is the step made on the inputs from which
\* the failed tickers are taken away
C21Step ==
    /\ (pc = "prepare" /\ pc' = "prepare") =>
          /\ valid_tickers' =
                SelectSeq(SubSeq(tickers, 1, next_ticker),
                          LAMBDA t : t \in DOMAIN scanner_per_ticker')
          /\ Range(warnings') \cap Range(valid_tickers') = {}
    /\ (pc = "exits" /\ pc' = "entries") =>
          /\ \E t \in Tickers : WithoutFailed(today')[t] # NoBar
          /\ \E inds \in [{t \in OpenTickers(open_positions) :
                             today'[t] # NoBar} -> PortfolioInds] :
               LET r == ExitLoop(open_positions, WithoutFailed(today'),
                           inds, current_date,
                           [cash |-> cash, trades |-> trades,
                            closed |-> <<>>])
               IN  /\ cash' = r.cash
                   /\ trades' = r.trades
                   /\ open_positions' = DeleteClosed(open_positions,
                                                      r.closed)
    /\ (pc = "entries" /\ pc' = "equity") =>
          \/ /\ ~(available_slots' > 0 /\ RLe(HalfSize, cash))
             /\ UNCHANGED <<cash, open_positions>>
          \/ \E sigs \in SignalsOfDay(WithoutFailed(today)) :
               LET cs == SortCandidates(BuildCandidates(valid_tickers,
                             open_positions, WithoutFailed(today), sigs))
                   r == EntryLoop(Take(cs, available_slots'), current_date,
                          [cash |-> cash, positions |-> open_positions,
                           opened |-> <<>>])
               IN  /\ cash' = r.cash
                   /\ open_positions' = r.positions
    /\ (pc = "equity" /\ pc' # "equity") =>
          equity_rows' = Append(equity_rows,
              EquityRow(current_date, cash, open_positions,
                        WithoutFailed(today), WithoutFailed(last_close)))
    /\ (pc = "close" /\ pc' = "done" /\ engine = "portfolio") =>
          LET r == ForceCloseLoop(open_positions,
                       WithoutFailed(last_close), current_date,
                       [cash |-> cash, trades |-> trades])
          IN  cash' = r.cash /\ trades' = r.trades

\* a ticker whose preparation raised is in no list, dict, position or trade
FailedExcluded ==
    \A t \in Range(warnings) :
        /\ t \notin Range(valid_tickers)
        /\ t \notin DOMAIN scanner_per_ticker
        /\ t \notin OpenTickers(open_positions)
        /\ \A i \in 1..Len(trades) : trades[i].ticker # t
        /\ \A i \in 1..Len(candidates) : candidates[i].ticker # t

\* C21: a ticker whose prepare_simulation raises is left out of the
\* portfolio run and the run goes on: the ticker is in no open position and
\* in no Trade, and every step of the run (the exits, the entries, the
\* equity row, the forced close) is the step of a run whose input does not
\* hold that ticker.
C21_FailedTickerExcluded ==
    /\ [](engine = "portfolio" => pc # "raised" /\ FailedExcluded)
    /\ [][C21Step]_vars

\* C21 witness: the preparation of one ticker raised, and on a day on which
\* that ticker has a row the other ticker is opened
C21_Witness ==
    /\ engine = "portfolio" /\ pc = "equity"
    /\ warnings # <<>>
    /\ today[warnings[1]] # NoBar
    /\ opened # <<>>

\* the scanner kept for a ticker was prepared for that ticker and holds
\* what was computed from that ticker's series
PreparedFor(s, t) ==
    /\ s.sim_ticker = t
    /\ s.sim_entries \in {t, NoEntries}
    /\ s.sim_ind \in {t, NoInd}
    /\ s.params = NewScanner.params

\* C23: in the portfolio engine every valid ticker is answered by its own
\* scanner copy, prepared for that ticker only; no step (the preparation
\* of another ticker, an entry or an exit query) changes a copy once it is
\* kept, and the scanner the engine was built with stays as it was.
C23_ScannerPerTicker ==
    /\ [](engine = "portfolio" =>
            /\ scanner = NewScanner
            /\ DOMAIN scanner_per_ticker = Range(valid_tickers)
            /\ \A t \in DOMAIN scanner_per_ticker :
                  PreparedFor(scanner_per_ticker[t], t))
    /\ [][\A t \in DOMAIN scanner_per_ticker :
             /\ t \in DOMAIN scanner_per_ticker'
             /\ scanner_per_ticker'[t] = scanner_per_ticker[t]]_vars

\* C23 witness: both tickers were prepared, and on one day both copies are
\* asked for an entry and both answer
C23_Witness ==
    /\ engine = "portfolio" /\ pc = "equity"
    /\ DOMAIN scanner_per_ticker = Tickers
    /\ \A t \in Tickers : scanner_per_ticker[t].sim_entries = t
    /\ Len(candidates) = 2

\* the exits and the entries of a day leave a ticker without a row alone
\* and treat the other tickers as if it were not there
C22Step ==
    /\ (pc = "exits" /\ pc' = "entries") =>
          LET skipped == {t \in OpenTickers(open_positions) :
                            today'[t] = NoBar}
              traded == SelectSeq(open_positions,
                            LAMBDA pos : today'[pos.ticker] # NoBar)
          IN  /\ \A t \in skipped :
                    /\ t \in OpenTickers(open_positions')
                    /\ PosOf(open_positions', t) = PosOf(open_positions, t)
                    /\ \A i \in (Len(trades) + 1)..Len(trades') :
                          trades'[i].ticker # t
              /\ \E inds \in [OpenTickers(traded) -> PortfolioInds] :
                   LET r == ExitLoop(traded, today', inds, current_date,
                               [cash |-> cash, trades |-> trades,
                                closed |-> <<>>])
                   IN  /\ cash' = r.cash
                       /\ trades' = r.trades
                       /\ tickers_to_close' = r.closed
    /\ (pc = "entries" /\ pc' = "equity") =>
          LET absent == {t \in Tickers : today[t] = NoBar}
              present == SelectSeq(valid_tickers,
                             LAMBDA t : today[t] # NoBar)
          IN  /\ \A t \in absent :
                    /\ t \notin Range(opened')
                    /\ \A i \in 1..Len(candidates') :
                          candidates'[i].ticker # t
                    /\ t \in OpenTickers(open_positions')
                          <=> t \in OpenTickers(open_positions)
                    /\ t \in OpenTickers(open_positions) =>
                          PosOf(open_positions', t)
                              = PosOf(open_positions, t)
              /\ \/ /\ ~(available_slots' > 0 /\ RLe(HalfSize, cash))
                    /\ UNCHANGED <<cash, open_positions>>
                 \/ \E sigs \in SignalsOfDay(today) :
                      LET cs == SortCandidates(BuildCandidates(present,
                                    open_positions, today, sigs))
                          r == EntryLoop(Take(cs, available_slots'),
                                 current_date,
                                 [cash |-> cash,
                                  positions |-> open_positions,
                                  opened |-> <<>>])
                      IN  /\ candidates' = cs
                          /\ cash' = r.cash
                          /\ open_positions' = r.positions

\* C22: on a day for which a ticker has no bar the portfolio engine makes
\* neither an exit nor an entry check for it: its position stays as it is,
\* no trade and no cash movement is booked for it, it is no candidate, and
\* the exits and entries of the other tickers are those of the same day
\* without that ticker.
C22_NoBarSkipped == [][C22Step]_vars

\* C22 witness: on the second day a held ticker has no row while another
\* held ticker is closed by its exit signal
C22_Witness ==
    /\ engine = "portfolio" /\ pc = "entries"
    /\ tickers_to_close # <<>>
    /\ \E i \in 1..Len(open_positions) :
          today[open_positions[i].ticker] = NoBar

\* one day of the single-ticker engine: flat, it may only enter; holding,
\* it may only exit
C28Step ==
    (engine = "single" /\ pc = "day") =>
        IF position = None
        THEN /\ trades' = trades
             /\ position' # None =>
                   /\ position'.date = current_date
                   /\ trades # <<>> =>
                         position'.date > Last(trades).exit_date
        ELSE /\ position' \in {position, None}
             /\ position' = position => trades' = trades
             /\ position' = None =>
                   /\ Len(trades') = Len(trades) + 1
                   /\ Last(trades').entry_date = position.date
                   /\ Last(trades').exit_date = current_date

\* C28: the single-ticker engine is FLAT or IN_POSITION; a day on which it
\* is FLAT asks for an entry only and a day on which it is IN_POSITION for
\* an exit only, so a position opened after an exit of day d is dated
\* after d and the trades follow one another without overlap.
C28_TwoStateMachine ==
    /\ [][C28Step]_vars
    /\ [](engine = "single" =>
            /\ \A i \in 1..(Len(trades) - 1) :
                  trades[i].exit_date < trades[i + 1].entry_date
            /\ (pc # "done" /\ position # None /\ trades # <<>>) =>
                  Last(trades).exit_date < position.date)

\* C28 witness: the engine entered on one day, left on an exit signal of a
\* later day and is flat again
C28_Witness ==
    /\ engine = "single" /\ pc = "close"
    /\ position = None
    /\ Len(trades) = 1
    /\ trades[1].entry_date < trades[1].exit_date

\* the entry step of a day on which positions were closed by exit signals
C29Step ==
    (engine = "portfolio" /\ pc = "entries") =>
        \A t \in Range(tickers_to_close) :
            /\ t \notin OpenTickers(open_positions)
            /\ t \in Range(valid_tickers)
            /\ today[t] # NoBar
            /\ t \in OpenTickers(open_positions') =>
                  /\ t \in Range(opened')
                  /\ \E i \in 1..Len(candidates') :
                        candidates'[i].ticker = t
                  /\ PosOf(open_positions', t).entry_signal.date
                        = current_date

\* C29: in the portfolio engine a ticker closed by an exit signal on day d
\* is not open when the entry step of day d begins and passes both guards
\* of the entry scan (it is valid and has a bar), so it is asked for an
\* entry on day d; when it is open after the step it was a candidate and
\* was opened on day d.
C29_SameDayReentry == [][C29Step]_vars

\* C29 witness: a ticker closed by its exit signal is opened again on the
\* same day
C29_Witness ==
    /\ engine = "portfolio" /\ pc = "equity"
    /\ Range(tickers_to_close) \cap Range(opened) # {}

Declared == Range(int_keys) \cup Range(float_keys)

\* the value a declared key holds once its override is applied
Converted(key, text) ==
    IF key \in Range(int_keys) THEN IntOf(text).val ELSE FloatOf(text).val

\* C24: configure leaves every parameter as it was when none of the given
\* keys is declared, and a call that returns has set each given declared
\* key to its value, read as the integer or float the key is declared to
\* be, and has changed no other parameter nor the prepared state.
C24_ConfigureFrame ==
    (query # None /\ ~verdict.raised) =>
        /\ \A k \in Declared :
              scanner.params[k] =
                  IF k \in DOMAIN query.kwargs
                  THEN Converted(k, query.kwargs[k])
                  ELSE NewScanner.params[k]
        /\ DOMAIN scanner.params = Declared
        /\ DOMAIN query.kwargs \cap Declared = {} => scanner = NewScanner
        /\ scanner = [NewScanner EXCEPT !.params = scanner.params]

\* C24 witness: a call with an undeclared key and a declared one, which
\* sets the declared parameter
C24_Witness ==
    /\ query # None /\ ~verdict.raised
    /\ DOMAIN query.kwargs = {"bogus", "d_fast"}
    /\ scanner.params["d_fast"] = 7

\* the text is one int() accepts / float() accepts
IsIntText(text) == IsDigits(Unsigned(text))
IsFloatText(text) ==
    LET u == Unsigned(text)
        digits == SelectSeq(u, LAMBDA c : c # ".")
    IN  /\ IsDigits(digits)
        /\ Len(u) - Len(digits) <= 1

Parses(key, text) ==
    IF key \in Range(int_keys) THEN IsIntText(text) ELSE IsFloatText(text)

\* the declared keys in the order configure visits them
KeyOrder == int_keys \o float_keys

\* the given declared keys whose value does not parse
BadKeys == {k \in DOMAIN query.kwargs \cap Declared :
               ~Parses(k, query.kwargs[k])}

\* C25 as stated: a value that does not parse as the declared type of its
\* key makes configure raise, and the parameters are then what they were
\* before the call.
C25_ConfigureAtomic ==
    query # None =>
        /\ verdict.raised <=> BadKeys # {}
        /\ verdict.raised => scanner = NewScanner

\* C25 amended: a value that does not parse makes configure raise at the
\* first such key in the declared order (integer keys, then float keys):
\* the overrides of the given keys before it stay applied, that key and
\* every key after it keep their values.
C25_ConfigureStopsAtError ==
    query # None =>
        /\ verdict.raised <=> BadKeys # {}
        /\ verdict.raised =>
              LET bad == CHOOSE i \in 1..Len(KeyOrder) :
                             /\ KeyOrder[i] \in BadKeys
                             /\ \A j \in 1..(i - 1) :
                                   KeyOrder[j] \notin BadKeys
              IN  \A i \in 1..Len(KeyOrder) :
                     scanner.params[KeyOrder[i]] =
                         IF i < bad /\ KeyOrder[i] \in DOMAIN query.kwargs
                         THEN Converted(KeyOrder[i],
                                        query.kwargs[KeyOrder[i]])
                         ELSE NewScanner.params[KeyOrder[i]]

\* C25 witness: the call raised after it had applied an override
C25_Witness ==
    /\ query # None /\ verdict.raised
    /\ DOMAIN query.kwargs = {"d_fast", "d_mid"}
    /\ scanner.params["d_fast"] = 7
    /\ scanner.params["d_mid"] = d_mid

\* the number of calendar weeks that hold a bar of the series
WeeksOf(ohlcv) == (Len(ohlcv) + DaysPerWeek - 1) \div DaysPerWeek

\* fewer daily bars than the slow window + 20, or fewer weekly bars than
\* the weekly medium window + 2
TooShort(ohlcv) ==
    \/ Len(ohlcv) < d_slow + 20
    \/ WeeksOf(ohlcv) < w_mid + 2

\* C26: for a series shorter than the lookbacks need, the indicators are
\* the insufficient-data value None, scan returns None, and the scanner
\* prepared for the series holds no entry: every check_entry_signal for
\* the ticker returns None.
C26_InsufficientData ==
    (query # None /\ pc # "scanner" /\ TooShort(query.ohlcv)) =>
        /\ scanner.sim_ticker = SimTicker
        /\ scanner.sim_ind = None
        /\ scanner.sim_entries = <<>>
        /\ (verdict # None /\ verdict.op = "scan") => verdict.result = None
        /\ (/\ verdict # None
            /\ verdict.op = "check_entry_signal"
            /\ verdict.ticker = SimTicker) => verdict.result = None

\* C26 witness: a series with enough daily bars and one weekly bar too
\* few, asked for the entry of a bar past the daily threshold
C26_Witness ==
    /\ query # None /\ verdict # None
    /\ Len(query.ohlcv) >= d_slow + 20
    /\ WeeksOf(query.ohlcv) = w_mid + 1
    /\ verdict.op = "check_entry_signal"
    /\ verdict.ticker = SimTicker
    /\ verdict.date >= d_slow + 20
    /\ verdict.result = None

\* the loop of simulate_cmd over a list of symbols none of which fails,
\* from a new scanner: the collected results
RECURSIVE RunSymbols(_, _, _, _)
RunSymbols(symbols, data, sc, acc) ==
    IF symbols = <<>> THEN acc
    ELSE LET sym == Head(symbols)
             r == SimulateTicker(sc, sym, data[sym])
         IN  IF data[sym].kind = "missing"
             THEN RunSymbols(Tail(symbols), data, sc, acc)
             ELSE RunSymbols(Tail(symbols), data, r.scanner,
                    IF r.result.num_trades > 0 THEN Append(acc, r.result)
                    ELSE acc)

\* the list without the tickers whose simulation fails
WithoutFailing(symbols, data) ==
    SelectSeq(symbols, LAMBDA sym : ~Failing(data[sym]))

\* C27: a failure while one ticker is simulated is logged for that ticker
\* and the loop goes on: every symbol is visited, the warnings name the
\* failing symbols, and the results are those of the same command run on
\* the list without the failing tickers.
C27_BatchContinues ==
    (engine = "batch" /\ pc = "done") =>
        /\ next_ticker = Len(tickers) + 1
        /\ warnings = SelectSeq(tickers, LAMBDA sym : Failing(query.data[sym]))
        /\ results = Ranked(RunSymbols(WithoutFailing(tickers, query.data),
                                       query.data, NewScanner, <<>>),
                            query.top)

\* C27 witness: the first ticker fails after its preparation began, the
\* second ticker is simulated and its result is kept
C27_Witness ==
    /\ engine = "batch" /\ pc = "done"
    /\ Len(tickers) = 2
    /\ warnings = <<tickers[1]>>
    /\ query.data[tickers[1]].kind = "loop"
    /\ Len(results) = 1
    /\ results[1].ticker = tickers[2]

\* C30: the window that simulate_ticker simulates never starts before the
\* 50th bar of the full series, whether its start date was defaulted or
\* supplied by the caller.
C30_WindowAfterWarmup ==
    (verdict # None /\ ~verdict.raised /\ verdict.ohlcv_sim.len > 0) =>
        verdict.ohlcv_sim.first + 1 >= WarmupBars

\* a series too short for the indicator warm-up
ShortSeries(n) == n < d_slow + 20

\* C31: simulate_ticker with the default window on a series too short for
\* the indicator warm-up, a series of 50 bars or fewer included, does not
\* raise: it returns a result with no trade whose equity is the initial
\* capital on every row.
C31_ShortSeriesNoVerdict ==
    (/\ verdict # None
     /\ ShortSeries(query.n)
     /\ query.start_date = NoDate /\ query.end_date = NoDate) =>
        /\ ~verdict.raised
        /\ results # <<>> =>
             /\ ~results[1].raised
             /\ results[1].num_trades = 0
             /\ \A i \in DOMAIN results[1].equity_curve :
                  results[1].equity_curve[i].equity = R(InitialCapital)

\* the candle of the query in the claim's terms
Body == R(IF query.c >= query.o THEN query.c - query.o
          ELSE query.o - query.c)
CandleRange == R(query.h - query.l)
LowerWick == R((IF query.c <= query.o THEN query.c ELSE query.o) - query.l)
UpperWick == R(query.h - (IF query.c >= query.o THEN query.c ELSE query.o))
SmallBody == RLt(Body, RMul(CandleRange, Rat(5, 100)))
LongLowerWick == RLt(RMul(CandleRange, Rat(6, 10)), LowerWick)
WickOverBody == RLe(RMul(Body, scanner.params.wick_body_ratio), LowerWick)
UpperWickCapped ==
    RLt(UpperWick, RMul(CandleRange, scanner.params.upper_wick_max))

\* C32 as stated: a candle with positive range is a hammer exactly when
\* (body < 5% of range, lower wick > 60% of range, upper wick under the
\* cap) or (lower wick >= wick_body_ratio x body, upper wick under the
\* cap), for every configured cap and ratio; with zero range it is none.
C32_HammerEitherTest ==
    verdict # None =>
        verdict.is_hammer =
            /\ query.h > query.l
            /\ \/ SmallBody /\ LongLowerWick /\ UpperWickCapped
               \/ WickOverBody /\ UpperWickCapped

\* C32 amended: the ratio test applies only to a candle whose body is at
\* least 5% of its range; a candle with a smaller body is a hammer exactly
\* when its lower wick is over 60% of the range and its upper wick under
\* the cap.
C32_HammerByBodySize ==
    verdict # None =>
        verdict.is_hammer =
            /\ query.h > query.l
            /\ \/ SmallBody /\ LongLowerWick /\ UpperWickCapped
               \/ ~SmallBody /\ WickOverBody /\ UpperWickCapped

\* C32 witness: with the cap configured to 0.5, a candle with a small body
\* whose lower wick is not over 60% of the range, though it passes the
\* ratio test under the cap, is no hammer
C32_Witness ==
    /\ verdict # None
    /\ scanner.params.upper_wick_max = Rat(1, 2)
    /\ SmallBody /\ ~LongLowerWick /\ WickOverBody /\ UpperWickCapped
    /\ ~verdict.is_hammer

\* a > b for two indicator values that are numbers
Above(a, b) == RLt(b, a)

\* the bar of the query does not pass the trend gate: an indicator of the
\* gate is undefined, the daily averages are not in the order short >
\* medium > longer, or the weekly close is not above the weekly medium MA
GateFails ==
    \/ \E x \in {query.mxf, query.mf, query.mm, query.w_last, query.w_mm} :
         x = RNaN
    \/ ~Above(query.mxf, query.mf)
    \/ ~Above(query.mf, query.mm)
    \/ ~Above(query.w_last, query.w_mm)

\* C33: the trend gate fails closed: for a bar whose daily averages are
\* not in the order short > medium > longer, whose weekly close is not
\* above the weekly medium MA, or for which one of these indicators is
\* undefined, _check_entry_at returns None whatever the candle is.
C33_GateFailsClosed ==
    (verdict # None /\ GateFails) => verdict.result = None

\* C33 witness: a hammer on the fast MA, a weekly close above its MA, the
\* short average above the medium one, and the longer average undefined
C33_Witness ==
    /\ verdict # None
    /\ query.bars[1] = Candle(1897, 1901, 1890, 1900, EvalFast, EvalMid)
    /\ query.mxf = R(1906) /\ query.mf = R(EvalFast)
    /\ query.mm = RNaN
    /\ query.w_last = R(2000) /\ query.w_mm = R(1800)
    /\ verdict.result = None

\* the cost basis of the k-th position the entry step opens
OpenedCost(k) == PosOf(open_positions', opened'[k]).cost_basis

\* the cash left when the entry step comes to its k-th opening
CashAtOpening(k) ==
    RSub(cash, SeqSum([j \in 1..(k - 1) |-> OpenedCost(j)]))

\* the entry step of one day
C34Step ==
    (engine = "portfolio" /\ pc = "entries") =>
        /\ RLt(cash, HalfSize) =>
              /\ candidates' = <<>> /\ opened' = <<>>
              /\ open_positions' = open_positions
        /\ \A k \in 1..Len(opened') :
              /\ OpenedCost(k) = RMin(position_dollar_size, CashAtOpening(k))
              /\ RLe(HalfSize, OpenedCost(k))

\* C34: every position the portfolio engine opens commits min(T, cash at
\* that moment) with T = initial_capital x position_size, none is opened
\* when that amount is below T/2, and the entry step asks for no entry when
\* cash is below T/2; so every open position's cost basis is in [T/2, T].
C34_PositionSized ==
    /\ [](engine = "portfolio" =>
            \A i \in 1..Len(open_positions) :
                /\ RLe(HalfSize, open_positions[i].cost_basis)
                /\ RLe(open_positions[i].cost_basis, position_dollar_size))
    /\ [][C34Step]_vars

\* C34 witness: two positions are opened on one day, the second with the
\* cash that is left, which is less than T and at least T/2
C34_Witness ==
    /\ engine = "portfolio" /\ pc = "equity"
    /\ Len(opened) = 2
    /\ RLt(PosOf(open_positions, opened[2]).cost_basis, position_dollar_size)
    /\ PosOf(open_positions, opened[1]).cost_basis = position_dollar_size

\* the price the claim gives an open position on the current day: the
\* day's close, else the last close before the day, else the entry price
LastKnownPrice(pos) ==
    IF today[pos.ticker] # NoBar THEN today[pos.ticker]
    ELSE IF last_close[pos.ticker] # NoBar THEN last_close[pos.ticker]
    ELSE pos.entry_signal.price

\* the step that records the equity row of a day
C35Step ==
    (engine = "portfolio" /\ pc = "equity") =>
        LET row == equity_rows'[Len(equity_rows')]
            value == SeqSum([i \in 1..Len(open_positions) |->
                        RMul(open_positions[i].shares,
                             R(LastKnownPrice(open_positions[i])))])
        IN  /\ Len(equity_rows') = Len(equity_rows) + 1
            /\ row.positions_value = value
            /\ row.equity = RAdd(cash, value)
            /\ row.cash = cash
            /\ row.num_positions = Len(open_positions)

\* C35: in the portfolio equity row of a day every open position is valued
\* at its ticker's close of that day if the ticker traded, else at the
\* ticker's last close before the day, else at its entry price; the row's
\* equity is cash plus the sum of these values and its count is the number
\* of open positions.
C35_MarkedToLastKnown == [][C35Step]_vars

\* C35 witness: with two tickers in the run, the row of the second day
\* counts the one position held since the first day and values it at the
\* last close known for its ticker
C35_Witness ==
    /\ engine = "portfolio" /\ pc = "close"
    /\ Len(equity_rows) = 2
    /\ Len(open_positions) = 1
    /\ open_positions[1].entry_signal.date = DayGap
    /\ equity_rows[2].num_positions = 1
    /\ equity_rows[2].positions_value =
           RMul(open_positions[1].shares,
                R(last_close[open_positions[1].ticker]))
    /\ \E t \in Range(valid_tickers) : t # open_positions[1].ticker

\* the latest close up to the current date, and the days since the entry
LatestClose == query.ohlcv_slice[Len(query.ohlcv_slice)]
DaysSinceEntry == query.current_date - query.entry_signal.date

\* C36 as stated: the default check_exit_signal returns STOP_LOSS when the
\* latest close up to the current date is at a 10% loss from the entry
\* price (a loss of exactly 10% is one), otherwise TIME_EXIT when at least 30
\* calendar days have passed since the entry date, otherwise None; an
\* empty slice gives None.
C36_DefaultExitPolicy ==
    verdict # None =>
        IF query.ohlcv_slice = <<>> THEN verdict.result = None
        ELSE IF 100 * LatestClose <= 90 * query.entry_signal.price
        THEN /\ verdict.result # None
             /\ verdict.result.reason = "STOP_LOSS"
             /\ verdict.result.price = LatestClose
        ELSE IF DaysSinceEntry >= 30
        THEN /\ verdict.result # None
             /\ verdict.result.reason = "TIME_EXIT"
             /\ verdict.result.price = LatestClose
        ELSE verdict.result = None

\* C36 amended: STOP_LOSS is returned when the latest close up to the
\* current date is more than 10% below the entry price (a loss of exactly
\* 10% is not enough), otherwise TIME_EXIT when at least 30 calendar days
\* have passed since the entry date, otherwise None; the stop-loss comes
\* first when both hold, and an empty slice gives None.
C36_DefaultExitStrict ==
    verdict # None =>
        IF query.ohlcv_slice = <<>> THEN verdict.result = None
        ELSE IF 100 * LatestClose < 90 * query.entry_signal.price
        THEN /\ verdict.result # None
             /\ verdict.result.reason = "STOP_LOSS"
             /\ verdict.result.price = LatestClose
             /\ verdict.result.date = query.current_date
        ELSE IF DaysSinceEntry >= 30
        THEN /\ verdict.result # None
             /\ verdict.result.reason = "TIME_EXIT"
             /\ verdict.result.price = LatestClose
             /\ verdict.result.date = query.current_date
        ELSE verdict.result = None

\* C36 witness: the latest of two closes is 11% below an entry made 30
\* days before, and the exit is a stop-loss
C36_Witness ==
    /\ verdict # None
    /\ query.ohlcv_slice = <<120, 89>>
    /\ query.entry_signal.price = 100
    /\ DaysSinceEntry = 30
    /\ verdict.result # None
    /\ verdict.result.reason = "STOP_LOSS"

\* ------------------------------------------------------------------ C37
\* the latest call of prepare_simulation, once it has returned
LastPrepared == results[Len(results)]
Cached == {"_sim_entries", "_sim_ind"}

C38_ExitAfterEntryDay ==
    \A i \in 1..Len(trades) :
        trades[i].exit_reason # "END_OF_DATA" =>
            /\ trades[i].exit_date > trades[i].entry_date
            /\ trades[i].hold_days >= 1

\* the portfolio engine closed a position by a signal on the date after
\* its entry and holds a position opened today, which today's exit step
\* never saw
C38_Witness ==
    /\ engine = "portfolio" /\ pc = "equity"
    /\ \E i \in 1..Len(trades) :
         /\ trades[i].exit_reason # "END_OF_DATA"
         /\ trades[i].exit_date = current_date
         /\ trades[i].hold_days = DayGap
    /\ \E k \in 1..Len(open_positions) :
         open_positions[k].entry_signal.date = current_date

\* ------------------------------------------------------------------ C39
\* the positions an engine holds: the values of open_positions, or the
\* one position of simulate_ticker; the final liquidation closes them all
HoldingsOf(at, ps, pos, sh) ==
    IF at = "done" THEN <<>>
    ELSE IF engine = "portfolio" THEN ps
    ELSE IF pos = None THEN <<>>
    ELSE <<[ticker |-> SimTicker, entry_signal |-> pos, shares |-> sh,
            cost_basis |-> RMul(sh, R(pos.price))]>>

Holdings == HoldingsOf(pc, open_positions, position, shares)

\* cash plus the summed cost basis of the positions hs
BookValueOf(c, hs) ==
    RAdd(c, SeqSum([k \in 1..Len(hs) |-> hs[k].cost_basis]))

BookValue == BookValueOf(cash, Holdings)

\* shares x (exit price - entry price) of a trade closing the position
RealisedBy(pos, t) ==
    RMul(pos.shares, R(t.exit_price - t.entry_price))

\* a step's new trades each close one of the positions held before the
\* step, and cash plus cost basis moves by exactly what they realised
C39Step ==
    \E hs \in {Holdings} :
      \E after \in {HoldingsOf(pc', open_positions', position', shares')} :
        LET closed == SubSeq(trades', Len(trades) + 1, Len(trades'))
            held(t) == CHOOSE k \in 1..Len(hs) : hs[k].ticker = t.ticker
        IN  /\ \A i \in 1..Len(closed) :
                 \E k \in 1..Len(hs) :
                     /\ hs[k].ticker = closed[i].ticker
                     /\ hs[k].entry_signal.price = closed[i].entry_price
            /\ BookValueOf(cash', after) =
                   RAdd(BookValueOf(cash, hs),
                        SeqSum([i \in 1..Len(closed) |->
                                   RealisedBy(hs[held(closed[i])],
                                              closed[i])]))

\* C39: money is conserved.  While no trade is closed, cash plus the
\* cost basis of the open positions is the initial capital; every step
\* moves that sum by the shares x (exit price - entry price) of the
\* trades it closes, so the sum always equals the initial capital plus
\* the realised profit and loss; and when the engine returns nothing is
\* held and the final equity row is the cash.
C39_MoneyConserved ==
    /\ [](trades = <<>> => BookValue = cfg.initial_capital)
    /\ [][C39Step]_vars
    /\ [](pc = "done" /\ equity_rows # <<>> =>
              /\ equity_rows[Len(equity_rows)].equity = cash
              /\ BookValue = cash)

\* the portfolio engine has returned after closing one position by a
\* signal and one by the final liquidation, with a profit or a loss left
\* in the cash
C39_Witness ==
    /\ engine = "portfolio" /\ pc = "done"
    /\ Len(trades) = 2
    /\ trades[1].exit_reason # "END_OF_DATA"
    /\ trades[1].exit_price # trades[1].entry_price
    /\ trades[2].exit_reason = "END_OF_DATA"
    /\ cash # cfg.initial_capital
    /\ equity_rows[Len(equity_rows)].equity = cash

\* ------------------------------------------------------------------ C40
\* trades are only appended; the positions that leave the engine's hands
\* in a step are exactly the ones the step's new trades close, one trade
\* each
C40Step ==
    \E hs \in {Holdings} :
      \E after \in {HoldingsOf(pc', open_positions', position', shares')} :
        LET closed == SubSeq(trades', Len(trades) + 1, Len(trades'))
            gone == {k \in 1..Len(hs) :
                        \A j \in 1..Len(after) :
                            \/ after[j].ticker # hs[k].ticker
                            \/ after[j].entry_signal.date
                                   # hs[k].entry_signal.date}
        IN  /\ trades = SubSeq(trades', 1, Len(trades))
            /\ Len(closed) = Cardinality(gone)
            /\ \A k \in gone :
                 Cardinality({i \in 1..Len(closed) :
                     /\ closed[i].ticker = hs[k].ticker
                     /\ closed[i].entry_date = hs[k].entry_signal.date})
                   = 1

\* the steps an engine has left at most, counting ten for a day still to
\* come: the loops run over finite lists (the tickers, the dates)
RemainingAt(at, d, nt) ==
    IF at = "prepare" THEN 10 * (MaxDays + 1) + Len(tickers) + 1 - nt
    ELSE IF at \in {"exits", "day"} THEN 10 * (MaxDays - d) + 5
    ELSE IF at = "entries" THEN 10 * (MaxDays - d) + 4
    ELSE IF at = "equity" THEN 10 * (MaxDays - d) + 3
    ELSE IF at = "close" THEN 2
    ELSE 1

\* C40: every position that is opened is closed exactly once.  A step's
\* new trades are exactly the positions that stop being held, so trades
\* plus held positions count the entries executed; every step brings the
\* engine closer to its return; at the return every position still in the
\* engine's variables has its END_OF_DATA trade, so none is left open;
\* and two trades of one ticker never overlap: the earlier one ended no
\* later than the later one began, and they began on different dates.
C40_ClosedExactlyOnce ==
    /\ [][C40Step]_vars
    /\ [][RemainingAt(pc', day', next_ticker')
              < RemainingAt(pc, day, next_ticker)]_vars
    /\ [](pc = "done" =>
            /\ \A k \in 1..Len(open_positions) :
                   \E i \in 1..Len(trades) :
                       /\ trades[i].ticker = open_positions[k].ticker
                       /\ trades[i].entry_date
                              = open_positions[k].entry_signal.date
                       /\ trades[i].exit_reason = "END_OF_DATA"
            /\ position # None =>
                   /\ trades # <<>>
                   /\ trades[Len(trades)].entry_date = position.date
                   /\ trades[Len(trades)].exit_reason = "END_OF_DATA")
    /\ [](\A i \in 1..Len(trades) : \A j \in 1..Len(trades) :
              (i < j /\ trades[i].ticker = trades[j].ticker) =>
                  /\ trades[i].exit_date <= trades[j].entry_date
                  /\ trades[i].entry_date < trades[j].entry_date)

\* the portfolio engine has returned with two trades of one ticker, the
\* first closed by a signal and the second by the final liquidation, and a
\* trade of the other ticker
C40_Witness ==
    /\ engine = "portfolio" /\ pc = "done"
    /\ Len(trades) = 3
    /\ \E i \in 1..3 : \E j \in 1..3 :
         /\ i < j
         /\ trades[i].ticker = trades[j].ticker
         /\ trades[i].exit_reason # "END_OF_DATA"
         /\ trades[j].exit_reason = "END_OF_DATA"
    /\ {trades[i].ticker : i \in 1..3} = Tickers

====
